---- MODULE Spec2Model ----
(***************************************************************************)
(* Model of the api_proxy_gateway request pipeline: the token-bucket rate  *)
(* limiter, the three-state circuit breaker, the retry engine and the      *)
(* per-request proxy state machine that wires them to the load balancer.   *)
(*                                                                         *)
(* Time is a discrete clock `now` counted in ticks; TicksPerSec ticks make  *)
(* one second.  Instants and Durations of the source are tick counts.      *)
(***************************************************************************)
EXTENDS Integers, Naturals, Sequences, FiniteSets, TLC

VARIABLES
    now,              \* the monotonic clock read by Instant::now()
    circuit_breaker,  \* CircuitBreaker { inner: CircuitBreakerInner, enabled }
    cbLast,           \* history: the last breaker call, its result, state before/after
    cbCount,          \* history: consec = record_failure calls since the last
                      \* record_success; probes = record_success calls since the
                      \* breaker last entered HalfOpen

    rate_limiter,     \* RateLimiter { bucket: TokenBucket, enabled }
    tbLast,           \* history: the last bucket call, its result, bucket before/after
    grants,           \* history: the instants of the check() calls that returned true
    burst,            \* history: the current burst of check() calls (see BurstAfter)
    retry_policy,     \* RetryPolicy
    run,              \* the locals of one retry_with_policy call
    outcomes,         \* history: the results the operation returned to that call
    requests,         \* per request: where its handler stands, and its RequestCtx
    metrics,          \* the counters and the histogram of observability.rs
    load_balancer,    \* the health bit of each peer and the round-robin cursor
    upstream,         \* environment: whether each peer accepts connections
    pipeHist,         \* history: ever_up = whether any peer was ever up; admitted =
                      \* while the breaker is HalfOpen, the requests can_execute has
                      \* admitted since it became HalfOpen (0 in the other states)
    sessions,         \* two requests that differ in query-parameter values only
    logs,             \* the log records emitted for each of the two
    config_file,      \* what the process finds at config.json
    config,           \* the ProxyConfig that run() works with
    picks             \* history: the peers returned by the selections of a pool

cbVars == <<circuit_breaker, cbLast, cbCount>>
tbVars == <<rate_limiter, tbLast, grants, burst>>

rtVars == <<retry_policy, run, outcomes>>

plVars == <<requests, metrics, load_balancer, upstream, pipeHist>>

lgVars == <<sessions, logs>>

cfVars == <<config_file, config>>

sideVars == <<lgVars, cfVars, picks>>

vars == <<now, cbVars, tbVars, rtVars, plVars, sideVars>>

----------------------------------------------------------------------------
(* Bounds of the model *)

MaxTime == 6          \* the clock stops advancing here
MaxThreshold == 3     \* failure_threshold is drawn from 1..MaxThreshold
MaxHalfOpen == 2      \* half_open_max_calls is drawn from 1..MaxHalfOpen
MaxRecovery == 2      \* recovery_timeout is drawn from 1..MaxRecovery ticks
MaxCount == 4         \* cap of the failure counters (failure_count grows without bound while Open)
TicksPerSec == 2      \* resolution of the clock
MaxCapacity == 2      \* burst_size is drawn from 1..MaxCapacity
MaxRate == 2          \* requests_per_second is drawn from 0..MaxRate
MaxAcquire == 2       \* try_acquire(n) is called with n in 1..MaxAcquire
MaxAttempts == 3      \* max_attempts is drawn from 0..MaxAttempts
MaxBackoffBase == 2   \* backoff_base is drawn from 1..MaxBackoffBase
MaxBackoffMax == 3    \* backoff_max is drawn from 2..MaxBackoffMax
NumRequests == 3      \* requests handled in one run of the proxy
NumPeers == 1         \* configured upstreams
PipeMaxTime == 2      \* the clock stops advancing here while the proxy runs
MaxParams == 2        \* a query string has up to MaxParams parameters
MaxPool == 2          \* a pool on its own has 1..MaxPool peers
MaxPicks == 3         \* selections made from a pool on its own
MaxFileValue == 2     \* a field of the configuration file holds a value in 1..MaxFileValue
WordBits == 6         \* bits of a u64 word, scaled down

----------------------------------------------------------------------------
(* circuit_breaker.rs *)

\* Option<Instant>::None
NoInstant == -1

\* CircuitBreaker::new / CircuitBreakerInner::new
CircuitBreaker_new(failure_threshold, recovery_timeout, half_open_max_calls, enabled) ==
    [ state |-> "Closed",
      failure_count |-> 0,
      success_count |-> 0,
      last_failure_time |-> NoInstant,
      failure_threshold |-> failure_threshold,
      recovery_timeout |-> recovery_timeout,
      half_open_max_calls |-> half_open_max_calls,
      enabled |-> enabled ]

\* a slip of can_execute: the recovery timeout compared with > instead of >=
Inner_can_execute_ret_gt(b, t) ==
    CASE b.state = "Closed" -> TRUE
      [] b.state = "Open" ->
            IF b.last_failure_time # NoInstant
            THEN (t - b.last_failure_time) > b.recovery_timeout
            ELSE FALSE
      [] b.state = "HalfOpen" -> b.success_count < b.half_open_max_calls

\* CircuitBreakerInner::can_execute: the returned bool
Inner_can_execute_ret(b, t) ==
    CASE b.state = "Closed" -> TRUE
      [] b.state = "Open" ->
            IF b.last_failure_time # NoInstant
            THEN (t - b.last_failure_time) >= b.recovery_timeout
            ELSE FALSE
      [] b.state = "HalfOpen" -> b.success_count < b.half_open_max_calls

\* CircuitBreakerInner::can_execute: the state it leaves
Inner_can_execute(b, t) ==
    IF /\ b.state = "Open"
       /\ b.last_failure_time # NoInstant
       /\ (t - b.last_failure_time) >= b.recovery_timeout
    THEN [b EXCEPT !.state = "HalfOpen", !.success_count = 0]
    ELSE b

\* a slip of record_success: the half-open quota compared with > instead of >=
Inner_record_success_gt(b) ==
    CASE b.state = "Closed" -> [b EXCEPT !.failure_count = 0]
      [] b.state = "HalfOpen" ->
            IF b.success_count + 1 > b.half_open_max_calls
            THEN [b EXCEPT !.state = "Closed", !.failure_count = 0,
                           !.success_count = 0, !.last_failure_time = NoInstant]
            ELSE [b EXCEPT !.success_count = b.success_count + 1]
      [] b.state = "Open" ->
            [b EXCEPT !.state = "Closed", !.failure_count = 0,
                      !.success_count = 0, !.last_failure_time = NoInstant]

\* CircuitBreakerInner::record_success
Inner_record_success(b) ==
    CASE b.state = "Closed" -> [b EXCEPT !.failure_count = 0]
      [] b.state = "HalfOpen" ->
            IF b.success_count + 1 >= b.half_open_max_calls
            THEN [b EXCEPT !.state = "Closed", !.failure_count = 0,
                           !.success_count = 0, !.last_failure_time = NoInstant]
            ELSE [b EXCEPT !.success_count = b.success_count + 1]
      [] b.state = "Open" ->
            [b EXCEPT !.state = "Closed", !.failure_count = 0,
                      !.success_count = 0, !.last_failure_time = NoInstant]

\* a slip of record_failure: a failure recorded while Open keeps the stamp
\* of the failure that opened the breaker
Inner_record_failure_first_stamp(b, t) ==
    CASE b.state = "Closed" ->
            IF b.failure_count + 1 >= b.failure_threshold
            THEN [b EXCEPT !.failure_count = b.failure_count + 1,
                           !.state = "Open", !.last_failure_time = t]
            ELSE [b EXCEPT !.failure_count = b.failure_count + 1]
      [] b.state = "HalfOpen" ->
            [b EXCEPT !.state = "Open", !.failure_count = b.failure_count + 1,
                      !.last_failure_time = t, !.success_count = 0]
      [] b.state = "Open" ->
            [b EXCEPT !.failure_count = b.failure_count + 1]

\* a slip of record_failure: the threshold compared with > instead of >=
Inner_record_failure_gt(b, t) ==
    CASE b.state = "Closed" ->
            IF b.failure_count + 1 > b.failure_threshold
            THEN [b EXCEPT !.failure_count = b.failure_count + 1,
                           !.state = "Open", !.last_failure_time = t]
            ELSE [b EXCEPT !.failure_count = b.failure_count + 1]
      [] b.state = "HalfOpen" ->
            [b EXCEPT !.state = "Open", !.failure_count = b.failure_count + 1,
                      !.last_failure_time = t, !.success_count = 0]
      [] b.state = "Open" ->
            [b EXCEPT !.failure_count = b.failure_count + 1, !.last_failure_time = t]

\* a slip of record_failure: the failure that opens a Closed breaker is not
\* stamped
Inner_record_failure_unstamped(b, t) ==
    CASE b.state = "Closed" ->
            IF b.failure_count + 1 >= b.failure_threshold
            THEN [b EXCEPT !.failure_count = b.failure_count + 1, !.state = "Open"]
            ELSE [b EXCEPT !.failure_count = b.failure_count + 1]
      [] b.state = "HalfOpen" ->
            [b EXCEPT !.state = "Open", !.failure_count = b.failure_count + 1,
                      !.last_failure_time = t, !.success_count = 0]
      [] b.state = "Open" ->
            [b EXCEPT !.failure_count = b.failure_count + 1, !.last_failure_time = t]

\* CircuitBreakerInner::record_failure
Inner_record_failure(b, t) ==
    CASE b.state = "Closed" ->
            IF b.failure_count + 1 >= b.failure_threshold
            THEN [b EXCEPT !.failure_count = b.failure_count + 1,
                           !.state = "Open", !.last_failure_time = t]
            ELSE [b EXCEPT !.failure_count = b.failure_count + 1]
      [] b.state = "HalfOpen" ->
            [b EXCEPT !.state = "Open", !.failure_count = b.failure_count + 1,
                      !.last_failure_time = t, !.success_count = 0]
      [] b.state = "Open" ->
            [b EXCEPT !.failure_count = b.failure_count + 1, !.last_failure_time = t]

\* CircuitBreaker::can_execute (the wrapper with the enabled flag): returned bool
CircuitBreaker_can_execute_ret(b, t) ==
    IF ~b.enabled THEN TRUE ELSE Inner_can_execute_ret(b, t)

\* CircuitBreaker::can_execute: the state it leaves
CircuitBreaker_can_execute(b, t) ==
    IF ~b.enabled THEN b ELSE Inner_can_execute(b, t)

\* a slip of record_success: the enabled flag tested the wrong way round
CircuitBreaker_record_success_inverted(b) ==
    IF b.enabled THEN b ELSE Inner_record_success(b)

\* CircuitBreaker::record_success
CircuitBreaker_record_success(b) ==
    IF ~b.enabled THEN b ELSE Inner_record_success(b)

\* a slip of record_failure: the enabled flag is not tested
CircuitBreaker_record_failure_unguarded(b, t) == Inner_record_failure(b, t)

\* CircuitBreaker::record_failure
CircuitBreaker_record_failure(b, t) ==
    IF ~b.enabled THEN b ELSE Inner_record_failure(b, t)

\* CircuitBreaker::get_state
CircuitBreaker_get_state(b) ==
    IF ~b.enabled THEN "Closed" ELSE b.state

\* history of one breaker call
CbCall(op, ret, pre, post, t) ==
    [op |-> op, ret |-> ret, pre |-> pre, post |-> post, at |-> t]

\* the three calls as state changes of the shared breaker (the mutex makes
\* each call atomic: the guard is taken, the inner method runs without an
\* await, the guard is dropped)
CallCanExecute ==
    /\ circuit_breaker' = CircuitBreaker_can_execute(circuit_breaker, now)
    /\ cbLast' = CbCall("can_execute", CircuitBreaker_can_execute_ret(circuit_breaker, now),
                        circuit_breaker, circuit_breaker', now)
    /\ cbCount' = IF circuit_breaker.state = "Open" /\ circuit_breaker'.state = "HalfOpen"
                  THEN [cbCount EXCEPT !.probes = 0]
                  ELSE cbCount

CallRecordSuccess ==
    /\ circuit_breaker' = CircuitBreaker_record_success(circuit_breaker)
    /\ cbLast' = CbCall("record_success", TRUE, circuit_breaker, circuit_breaker', now)
    /\ cbCount' = [consec |-> 0,
                   probes |-> IF circuit_breaker.state = "HalfOpen"
                              THEN cbCount.probes + 1 ELSE cbCount.probes]

CallRecordFailure ==
    /\ circuit_breaker.failure_count < MaxCount
    /\ cbCount.consec < MaxCount
    /\ circuit_breaker' = CircuitBreaker_record_failure(circuit_breaker, now)
    /\ cbLast' = CbCall("record_failure", TRUE, circuit_breaker, circuit_breaker', now)
    /\ cbCount' = [consec |-> cbCount.consec + 1, probes |-> 0]

----------------------------------------------------------------------------
(* rate_limiter.rs *)

Min(a, b) == IF a <= b THEN a ELSE b

\* TokenBucket::new and RateLimiter::new, built at instant t
RateLimiter_new(requests_per_second, burst_size, enabled, t) ==
    [ capacity |-> burst_size,
      tokens |-> burst_size,
      refill_rate |-> requests_per_second,
      last_refill |-> t,
      enabled |-> enabled ]

\* a slip of refill: a rate of 0 taken as one token per second
tokens_to_add_rate_floor(b, t) ==
    ((t - b.last_refill) * (IF b.refill_rate = 0 THEN 1 ELSE b.refill_rate))
        \div TicksPerSec

\* (elapsed.as_secs_f64() * refill_rate as f64) as u64: the product truncated
tokens_to_add(b, t) ==
    ((t - b.last_refill) * b.refill_rate) \div TicksPerSec

\* a slip of refill: the sum not clamped to the capacity
TokenBucket_refill_unclamped(b, t) ==
    IF tokens_to_add(b, t) > 0
    THEN [b EXCEPT !.tokens = b.tokens + tokens_to_add(b, t),
                   !.last_refill = t]
    ELSE b

\* a slip of refill: last_refill moved at every call, also when no token is
\* added
TokenBucket_refill_restamped(b, t) ==
    IF tokens_to_add(b, t) > 0
    THEN [b EXCEPT !.tokens = Min(b.tokens + tokens_to_add(b, t), b.capacity),
                   !.last_refill = t]
    ELSE [b EXCEPT !.last_refill = t]

\* TokenBucket::refill
TokenBucket_refill(b, t) ==
    IF tokens_to_add(b, t) > 0
    THEN [b EXCEPT !.tokens = Min(b.tokens + tokens_to_add(b, t), b.capacity),
                   !.last_refill = t]
    ELSE b

\* TokenBucket::try_acquire: the returned bool
TokenBucket_try_acquire_ret(b, n, t) ==
    TokenBucket_refill(b, t).tokens >= n

\* a slip of try_acquire: a refused acquisition takes the tokens there are
TokenBucket_try_acquire_partial(b, n, t) ==
    LET r == TokenBucket_refill(b, t)
    IN  IF r.tokens >= n THEN [r EXCEPT !.tokens = r.tokens - n]
        ELSE [r EXCEPT !.tokens = 0]

\* TokenBucket::try_acquire: the bucket it leaves
TokenBucket_try_acquire(b, n, t) ==
    LET r == TokenBucket_refill(b, t)
    IN  IF r.tokens >= n THEN [r EXCEPT !.tokens = r.tokens - n] ELSE r

\* RateLimiter::check_rate_limit: the returned bool
RateLimiter_check_rate_limit_ret(b, t) ==
    IF ~b.enabled THEN TRUE ELSE TokenBucket_try_acquire_ret(b, 1, t)

\* a slip of check_rate_limit: the enabled flag is not tested before the
\* bucket is used
RateLimiter_check_rate_limit_unguarded(b, t) == TokenBucket_try_acquire(b, 1, t)

\* RateLimiter::check_rate_limit: the bucket it leaves
RateLimiter_check_rate_limit(b, t) ==
    IF ~b.enabled THEN b ELSE TokenBucket_try_acquire(b, 1, t)

\* history of one bucket call
TbCall(op, n, ret, pre, post, t) ==
    [op |-> op, n |-> n, ret |-> ret, pre |-> pre, post |-> post, at |-> t]

\* no burst of check() calls is being followed
NoBurst == [start |-> NoInstant, calls |-> 0, accepted |-> 0]

\* history of a burst: a burst starts with a check() that finds the bucket
\* full and lasts for less than 1/refill_rate; calls counts its check()
\* calls (up to MaxCount) and accepted those that returned true.  bk is the
\* history before a check() made at instant t on bucket b.
BurstAfter(bk, b, t) ==
    LET over == \/ bk.start = NoInstant
                \/ (t - bk.start) * b.refill_rate >= TicksPerSec
        full == TokenBucket_refill(b, t).tokens = b.capacity
        got  == IF RateLimiter_check_rate_limit_ret(b, t) THEN 1 ELSE 0
    IN  IF over
        THEN IF full THEN [start |-> t, calls |-> 1, accepted |-> got] ELSE NoBurst
        ELSE [bk EXCEPT !.calls = Min(@ + 1, MaxCount), !.accepted = @ + got]

\* check() on the shared limiter (atomic under the bucket's mutex)
CallCheckRateLimit ==
    /\ rate_limiter' = RateLimiter_check_rate_limit(rate_limiter, now)
    /\ tbLast' = TbCall("check", 1, RateLimiter_check_rate_limit_ret(rate_limiter, now),
                        rate_limiter, rate_limiter', now)


----------------------------------------------------------------------------
(* retry.rs *)

\* Texts are sequences of characters.

\* "always fails"
MsgAlwaysFails ==
    <<"a", "l", "w", "a", "y", "s", " ", "f", "a", "i", "l", "s">>

\* "temporary failure"
MsgTemporaryFailure ==
    <<"t", "e", "m", "p", "o", "r", "a", "r", "y", " ", "f", "a", "i", "l", "u", "r", "e">>

\* "failure"
MsgFailure ==
    <<"f", "a", "i", "l", "u", "r", "e">>

\* "no upstream available"
MsgNoUpstream ==
    <<"n", "o", " ", "u", "p", "s", "t", "r", "e", "a", "m", " ", "a", "v", "a", "i", "l", "a", "b", "l", "e">>

\* "Connection reset"
MsgConnectionReset ==
    <<"C", "o", "n", "n", "e", "c", "t", "i", "o", "n", " ", "r", "e", "s", "e", "t">>

\* "HTTP 503"
MsgHttp503 ==
    <<"H", "T", "T", "P", " ", "5", "0", "3">>

\* the error texts the operations of the model fail with
Messages ==
    {MsgAlwaysFails, MsgTemporaryFailure, MsgFailure, MsgNoUpstream, MsgConnectionReset, MsgHttp503}

\* char::to_lowercase on the letters that occur in upper case
LowerChar(c) ==
    CASE c = "C" -> "c"
      [] c = "H" -> "h"
      [] c = "T" -> "t"
      [] c = "P" -> "p"
      [] OTHER -> c

\* str::to_lowercase
to_lowercase(s) == [i \in 1..Len(s) |-> LowerChar(s[i])]

\* str::contains
contains(s, pat) ==
    \E i \in 1..(Len(s) - Len(pat) + 1) : SubSeq(s, i, i + Len(pat) - 1) = pat

\* the substrings should_retry looks for
RetryablePatterns ==
    { <<"t", "i", "m", "e", "o", "u", "t">>,
      <<"c", "o", "n", "n", "e", "c", "t", "i", "o", "n">>,
      <<"n", "e", "t", "w", "o", "r", "k">>,
      <<"t", "e", "m", "p", "o", "r", "a", "r", "y">>,
      <<"5", "0", "3">>,
      <<"5", "0", "2">>,
      <<"5", "0", "4">> }

\* RetryPolicy::new
RetryPolicy_new(max_attempts, backoff_base, backoff_max, enabled) ==
    [ max_attempts |-> max_attempts,
      backoff_base |-> backoff_base,
      backoff_max |-> backoff_max,
      enabled |-> enabled ]

\* RetryableError::new; Display prints the message
RetryableError_new(message, is_retryable) ==
    [ message |-> message, is_retryable |-> is_retryable ]

\* RetryableError::retryable
RetryableError_retryable(message) == RetryableError_new(message, TRUE)

\* RetryableError::non_retryable
RetryableError_non_retryable(message) == RetryableError_new(message, FALSE)

\* a slip of max_attempts: the configured number also when disabled
RetryPolicy_max_attempts_configured(p) == p.max_attempts

\* RetryPolicy::max_attempts
RetryPolicy_max_attempts(p) ==
    IF p.enabled THEN p.max_attempts ELSE 1

RECURSIVE Pow2(_)
\* 2_u64.pow(n)
Pow2(n) == IF n = 0 THEN 1 ELSE 2 * Pow2(n - 1)

\* u64: the values are 0 .. U64Modulus - 1 (a word of WordBits bits)
U64Modulus == Pow2(WordBits)

\* 2_u64.pow(n) where the build wraps on overflow: 2^n modulo the word
u64_pow2(n) == IF n >= WordBits THEN 0 ELSE Pow2(n)

\* a * b in u64 where the build wraps on overflow
u64_mul(a, b) == (a * b) % U64Modulus

\* RetryPolicy::wait_before_retry: whether the power or the product
\* overflows u64.  A build with overflow checks panics there, a build
\* without them goes on with the wrapped value.
wait_before_retry_overflows(p, attempt) ==
    /\ p.enabled
    /\ attempt > 0
    /\ \/ attempt - 1 >= WordBits
       \/ p.backoff_base * Pow2(attempt - 1) >= U64Modulus

\* RetryPolicy::wait_before_retry: the duration it sleeps (0: it returns at
\* once), with the product computed in u64
RetryPolicy_wait_before_retry(p, attempt) ==
    IF ~p.enabled \/ attempt = 0
    THEN 0
    ELSE Min(u64_mul(p.backoff_base, u64_pow2(attempt - 1)), p.backoff_max)

\* the classification of should_retry: the lower-cased text of the error
\* contains one of the patterns
is_retryable_text(error) ==
    \E pat \in RetryablePatterns : contains(to_lowercase(error.message), pat)

\* a slip of should_retry: the attempt bound is reached one attempt early
RetryPolicy_should_retry_early(p, attempt, error) ==
    IF ~p.enabled THEN FALSE
    ELSE IF attempt + 1 >= p.max_attempts THEN FALSE
    ELSE is_retryable_text(error)

\* RetryPolicy::should_retry
RetryPolicy_should_retry(p, attempt, error) ==
    IF ~p.enabled THEN FALSE
    ELSE IF attempt >= p.max_attempts THEN FALSE
    ELSE is_retryable_text(error)

\* The local state of one retry_with_policy call: the loop variable
\* `attempt`, `last_error`, where the call stands (phase), and its history
\* (calls: invocations of the operation; slept: the backoff sleeps it made).
NoError == RetryableError_new(<<>>, FALSE)

\* retry_with_policy: entry, before the loop
Retry_start ==
    [ phase |-> "head", attempt |-> 0, last_error |-> NoError, has_last |-> FALSE,
      calls |-> 0, slept |-> <<>>, result |-> "none", error |-> NoError ]

\* retry_with_policy: the head of the for loop.  The range is exhausted:
\* last_error.unwrap() returns the error or panics on None.  Otherwise
\* wait_before_retry is awaited (attempt > 0) or the operation is called next.
Retry_head(p, st) ==
    IF st.attempt >= RetryPolicy_max_attempts(p)
    THEN IF st.has_last
         THEN [st EXCEPT !.phase = "done", !.result = "err", !.error = st.last_error]
         ELSE [st EXCEPT !.phase = "done", !.result = "panic"]
    ELSE IF st.attempt > 0
         THEN [st EXCEPT !.phase = "sleep",
                          !.slept = Append(st.slept,
                                           RetryPolicy_wait_before_retry(p, st.attempt))]
         ELSE [st EXCEPT !.phase = "call"]

\* retry_with_policy: the sleep of wait_before_retry is over
Retry_wake(st) == [st EXCEPT !.phase = "call"]

\* an outcome of the operation: Ok(value) or Err(error)
Ok == [ok |-> TRUE, error |-> NoError]
Err(e) == [ok |-> FALSE, error |-> e]

\* a slip of retry_with_policy: a failure is attempted again whenever
\* attempts remain, without asking should_retry
Retry_outcome_unclassified(p, st, outcome) ==
    LET called == [st EXCEPT !.calls = st.calls + 1]
    IN  IF outcome.ok
        THEN [called EXCEPT !.phase = "done", !.result = "ok"]
        ELSE IF st.attempt + 1 < RetryPolicy_max_attempts(p)
             THEN [called EXCEPT !.phase = "head", !.attempt = st.attempt + 1,
                                 !.last_error = outcome.error, !.has_last = TRUE]
             ELSE [called EXCEPT !.phase = "done", !.result = "err",
                                 !.error = outcome.error]

\* a slip of retry_with_policy: when it gives up it returns the error kept
\* in last_error, that of the invocation before
Retry_outcome_stale_error(p, st, outcome) ==
    LET called == [st EXCEPT !.calls = st.calls + 1]
    IN  IF outcome.ok
        THEN [called EXCEPT !.phase = "done", !.result = "ok"]
        ELSE IF /\ st.attempt + 1 < RetryPolicy_max_attempts(p)
                /\ RetryPolicy_should_retry(p, st.attempt + 1, outcome.error)
             THEN [called EXCEPT !.phase = "head", !.attempt = st.attempt + 1,
                                 !.last_error = outcome.error, !.has_last = TRUE]
             ELSE [called EXCEPT !.phase = "done", !.result = "err",
                                 !.error = IF st.has_last THEN st.last_error
                                           ELSE outcome.error]

\* retry_with_policy: operation().await and the match on its result
Retry_outcome(p, st, outcome) ==
    LET called == [st EXCEPT !.calls = st.calls + 1]
    IN  IF outcome.ok
        THEN [called EXCEPT !.phase = "done", !.result = "ok"]
        ELSE IF /\ st.attempt + 1 < RetryPolicy_max_attempts(p)
                /\ RetryPolicy_should_retry(p, st.attempt + 1, outcome.error)
             THEN [called EXCEPT !.phase = "head", !.attempt = st.attempt + 1,
                                 !.last_error = outcome.error, !.has_last = TRUE]
             ELSE [called EXCEPT !.phase = "done", !.result = "err",
                                 !.error = outcome.error]


----------------------------------------------------------------------------
(* observability.rs, proxy.rs, bootstrap.rs *)

Requests == 1..NumRequests
Peers == 1..NumPeers

\* Option::None of RequestCtx::upstream_addr and of LoadBalancer::select
NoPeer == 0

\* the registry: every counter at 0, no observation in the histogram
Metrics_new ==
    [ requests_total |-> 0,
      upstream_selected_total |-> 0,
      upstream_errors_total |-> 0,
      rate_limited_total |-> 0,
      circuit_breaker_open_total |-> 0,
      retries_total |-> 0,
      request_duration_count |-> 0 ]

\* IntCounter::inc
inc(m, counter) == [m EXCEPT ![counter] = m[counter] + 1]

\* LoadBalancer::try_from_iter: every backend starts healthy, cursor at the
\* first backend
LoadBalancer_new ==
    [ healthy |-> [p \in Peers |-> TRUE], cursor |-> 0 ]

\* LoadBalancer::try_from_iter on n backends
LoadBalancer_try_from_iter(n) ==
    [ healthy |-> [p \in 1..n |-> TRUE], cursor |-> 0 ]

\* the peer examined k positions after the cursor
PeerAt(lb, k) == ((lb.cursor + k) % Len(lb.healthy)) + 1

\* the offsets from the cursor at which a healthy peer stands
HealthyOffsets(lb) == { k \in 0..(Len(lb.healthy) - 1) : lb.healthy[PeerAt(lb, k)] }

\* the smallest element of a non-empty set of numbers
Least(S) == CHOOSE k \in S : \A j \in S : k <= j

\* a slip of select: the peer at the cursor is returned whatever its health
\* bit
LoadBalancer_select_ret_unchecked(lb) == PeerAt(lb, 0)

\* LoadBalancer::select: the peer returned (NoPeer: None)
LoadBalancer_select_ret(lb) ==
    IF HealthyOffsets(lb) = {} THEN NoPeer ELSE PeerAt(lb, Least(HealthyOffsets(lb)))

\* a slip of select: the cursor stays where it is
LoadBalancer_select_stuck(lb) == lb

\* LoadBalancer::select: the cursor moves past every peer it examined
LoadBalancer_select(lb) ==
    IF HealthyOffsets(lb) = {}
    THEN lb
    ELSE [lb EXCEPT !.cursor =
                      (lb.cursor + Least(HealthyOffsets(lb)) + 1) % Len(lb.healthy)]

\* a request that has not arrived yet
Request_new ==
    [ pc |-> "new", run |-> Retry_start, wake_at |-> 0, status |-> 0,
      upstream_addr |-> NoPeer, after_failures |-> FALSE, forwards |-> 0 ]

\* what a peer that accepted the connection may answer: a success, a client
\* error, and an error of the kind the retry engine calls retryable
Responses == {200, 404, 504}

\* the requests that ended with an upstream failure: selection failed (500)
\* or the connection to the selected peer failed (502)
FailedRequests == { r \in Requests : requests[r].status \in {500, 502} }

\* history: no peer has ever been up, failure_threshold requests have
\* failed upstream, and less than recovery_timeout has passed since the
\* start (hence since any of these failures).  A request carries it in
\* after_failures when this held at its arrival and still holds when it
\* reaches the breaker.
AfterFailures ==
    /\ ~pipeHist.ever_up
    /\ Cardinality(FailedRequests) >= circuit_breaker.failure_threshold
    /\ now < circuit_breaker.recovery_timeout

\* LB::new_ctx: REQUESTS_TOTAL.inc() (the fresh RequestCtx is Request_new)
new_ctx(m) == inc(m, "requests_total")

\* a slip of request_filter: the `return Ok(true)` after the 429 is missing,
\* so a rate-limited request goes on to the breaker
RequestFilterRateLimit_fallthrough(r) ==
    /\ requests[r].pc = "new"
    /\ r > 1 => requests[r - 1].pc # "new"
    /\ rate_limiter' = RateLimiter_check_rate_limit(rate_limiter, now)
    /\ IF RateLimiter_check_rate_limit_ret(rate_limiter, now)
       THEN /\ requests' = [requests EXCEPT ![r].pc = "breaker_check",
                                            ![r].after_failures = AfterFailures]
            /\ metrics' = new_ctx(metrics)
       ELSE /\ requests' = [requests EXCEPT ![r].pc = "breaker_check", ![r].status = 429,
                                            ![r].after_failures = AfterFailures]
            /\ metrics' = inc(new_ctx(metrics), "rate_limited_total")
    /\ UNCHANGED <<now, sideVars, cbVars, tbLast, grants, burst, rtVars, load_balancer, upstream, pipeHist>>

\* A request arrives: LB::new_ctx, then LB::request_filter up to the
\* rate-limit decision: on a rejection RATE_LIMITED_TOTAL.inc(), respond 429,
\* Ok(true) ends the request.  new_ctx touches only the request counter and
\* the request's own context, so it commutes with every step of the other
\* requests and is taken together with the request's first step on shared
\* state.  Requests are interchangeable, so they arrive in the order of
\* their numbers.
RequestFilterRateLimit(r) ==
    /\ requests[r].pc = "new"
    /\ r > 1 => requests[r - 1].pc # "new"
    /\ rate_limiter' = RateLimiter_check_rate_limit(rate_limiter, now)
    /\ IF RateLimiter_check_rate_limit_ret(rate_limiter, now)
       THEN /\ requests' = [requests EXCEPT ![r].pc = "breaker_check",
                                            ![r].after_failures = AfterFailures]
            /\ metrics' = new_ctx(metrics)
       ELSE /\ requests' = [requests EXCEPT ![r].pc = "done", ![r].status = 429,
                                            ![r].after_failures = AfterFailures]
            /\ metrics' = inc(new_ctx(metrics), "rate_limited_total")
    /\ UNCHANGED <<now, sideVars, cbVars, tbLast, grants, burst, rtVars, load_balancer, upstream, pipeHist>>

\* a slip of request_filter: a request the breaker rejects gives its token
\* back to the bucket
RequestFilterBreaker_refunds_token(r) ==
    /\ requests[r].pc = "breaker_check"
    /\ circuit_breaker' = CircuitBreaker_can_execute(circuit_breaker, now)
    /\ IF CircuitBreaker_can_execute_ret(circuit_breaker, now)
       THEN /\ requests' = [requests EXCEPT
                              ![r].pc = "upstream_peer",
                              ![r].run = Retry_start,
                              ![r].after_failures =
                                  requests[r].after_failures /\ AfterFailures]
            /\ UNCHANGED <<metrics, rate_limiter>>
       ELSE /\ requests' = [requests EXCEPT
                              ![r].pc = "done", ![r].status = 503,
                              ![r].after_failures =
                                  requests[r].after_failures /\ AfterFailures]
            /\ metrics' = inc(metrics, "circuit_breaker_open_total")
            /\ rate_limiter' = [rate_limiter EXCEPT !.tokens =
                                   IF @ < rate_limiter.capacity THEN @ + 1 ELSE @]
    /\ pipeHist' = [pipeHist EXCEPT !.admitted =
                       IF circuit_breaker'.state # "HalfOpen" THEN 0
                       ELSE IF circuit_breaker.state = "Open" THEN 1
                       ELSE IF CircuitBreaker_can_execute_ret(circuit_breaker, now)
                            THEN @ + 1 ELSE @]
    /\ UNCHANGED <<now, sideVars, cbLast, cbCount, tbLast, grants, burst, rtVars,
                   load_balancer, upstream>>

\* a slip of request_filter: a request the breaker rejects is recorded as a
\* failure
RequestFilterBreaker_counts_rejection(r) ==
    /\ requests[r].pc = "breaker_check"
    /\ circuit_breaker' =
          IF CircuitBreaker_can_execute_ret(circuit_breaker, now)
          THEN CircuitBreaker_can_execute(circuit_breaker, now)
          ELSE CircuitBreaker_record_failure(
                   CircuitBreaker_can_execute(circuit_breaker, now), now)
    /\ IF CircuitBreaker_can_execute_ret(circuit_breaker, now)
       THEN /\ requests' = [requests EXCEPT
                              ![r].pc = "upstream_peer",
                              ![r].run = Retry_start,
                              ![r].after_failures =
                                  requests[r].after_failures /\ AfterFailures]
            /\ UNCHANGED metrics
       ELSE /\ requests' = [requests EXCEPT
                              ![r].pc = "done", ![r].status = 503,
                              ![r].after_failures =
                                  requests[r].after_failures /\ AfterFailures]
            /\ metrics' = inc(metrics, "circuit_breaker_open_total")
    /\ pipeHist' = [pipeHist EXCEPT !.admitted =
                       IF circuit_breaker'.state # "HalfOpen" THEN 0
                       ELSE IF circuit_breaker.state = "Open" THEN 1
                       ELSE IF CircuitBreaker_can_execute_ret(circuit_breaker, now)
                            THEN @ + 1 ELSE @]
    /\ UNCHANGED <<now, sideVars, cbLast, cbCount, tbVars, rtVars, load_balancer, upstream>>

\* LB::request_filter at the breaker decision: on a rejection
\* CIRCUIT_BREAKER_OPEN_TOTAL.inc(), respond 503, Ok(true) ends the request;
\* otherwise Ok(false) and upstream_peer is entered
RequestFilterBreaker(r) ==
    /\ requests[r].pc = "breaker_check"
    /\ circuit_breaker' = CircuitBreaker_can_execute(circuit_breaker, now)
    /\ IF CircuitBreaker_can_execute_ret(circuit_breaker, now)
       THEN /\ requests' = [requests EXCEPT
                              ![r].pc = "upstream_peer",
                              ![r].run = Retry_start,
                              ![r].after_failures =
                                  requests[r].after_failures /\ AfterFailures]
            /\ UNCHANGED metrics
       ELSE /\ requests' = [requests EXCEPT
                              ![r].pc = "done", ![r].status = 503,
                              ![r].after_failures =
                                  requests[r].after_failures /\ AfterFailures]
            /\ metrics' = inc(metrics, "circuit_breaker_open_total")
    /\ pipeHist' = [pipeHist EXCEPT !.admitted =
                       IF circuit_breaker'.state # "HalfOpen" THEN 0
                       ELSE IF circuit_breaker.state = "Open" THEN 1
                       ELSE IF CircuitBreaker_can_execute_ret(circuit_breaker, now)
                            THEN @ + 1 ELSE @]
    /\ UNCHANGED <<now, sideVars, cbLast, cbCount, tbVars, rtVars, load_balancer, upstream>>

\* the select_upstream closure of LB::upstream_peer: the result it returns
select_upstream_ret(lb) ==
    IF LoadBalancer_select_ret(lb) # NoPeer
    THEN Ok
    ELSE Err(RetryableError_retryable(MsgNoUpstream))

\* a slip of the closure: every selection counts as a successful one
select_upstream_metrics_every(lb, m) == inc(m, "upstream_selected_total")

\* the select_upstream closure: the counter it bumps
select_upstream_metrics(lb, m) ==
    IF LoadBalancer_select_ret(lb) # NoPeer
    THEN inc(m, "upstream_selected_total")
    ELSE inc(m, "upstream_errors_total")

\* retry_with_policy from the loop head or from the end of a sleep up to the
\* next await: the loop head (when standing there), one invocation of the
\* operation with result o, the match, and the loop head again after continue
Retry_attempt(p, st, o) ==
    LET at_call == IF st.phase = "head" THEN Retry_head(p, st) ELSE Retry_wake(st)
        matched == IF at_call.phase = "call" THEN Retry_outcome(p, at_call, o) ELSE at_call
    IN  IF matched.phase = "head" THEN Retry_head(p, matched) ELSE matched

\* a slip of upstream_peer: the Err arm does not tell the breaker
UpstreamPeer_silent_failure(r) ==
    /\ requests[r].pc = "upstream_peer"
    /\ \/ requests[r].run.phase = "head"
       \/ requests[r].run.phase = "sleep" /\ now >= requests[r].wake_at
    /\ LET st == Retry_attempt(retry_policy, requests[r].run,
                               select_upstream_ret(load_balancer))
           invoked == st.calls > requests[r].run.calls
           m == IF invoked THEN select_upstream_metrics(load_balancer, metrics) ELSE metrics
       IN  /\ load_balancer' = IF invoked THEN LoadBalancer_select(load_balancer)
                               ELSE load_balancer
           /\ CASE st.phase = "sleep" ->
                     /\ requests' = [requests EXCEPT
                                       ![r].run = st,
                                       ![r].wake_at = now + st.slept[Len(st.slept)]]
                     /\ metrics' = m
                     /\ UNCHANGED <<circuit_breaker, pipeHist>>
                [] st.phase = "done" /\ st.result = "ok" ->
                     /\ circuit_breaker' = CircuitBreaker_record_success(circuit_breaker)
                     /\ requests' = [requests EXCEPT
                                       ![r].run = st, ![r].pc = "forward",
                                       ![r].upstream_addr = LoadBalancer_select_ret(load_balancer)]
                     /\ metrics' = m
                     /\ pipeHist' = [pipeHist EXCEPT !.admitted =
                                        IF circuit_breaker'.state = "HalfOpen" THEN @ ELSE 0]
                [] st.phase = "done" /\ st.result = "err" ->
                     /\ requests' = [requests EXCEPT
                                       ![r].run = st, ![r].pc = "done", ![r].status = 500]
                     /\ metrics' = inc(m, "retries_total")
                     /\ UNCHANGED <<circuit_breaker, pipeHist>>
                [] st.phase = "done" /\ st.result = "panic" ->
                     /\ requests' = [requests EXCEPT
                                       ![r].run = st, ![r].pc = "done", ![r].status = 500]
                     /\ metrics' = m
                     /\ UNCHANGED <<circuit_breaker, pipeHist>>
    /\ UNCHANGED <<now, sideVars, cbLast, cbCount, tbVars, rtVars, upstream>>

\* LB::upstream_peer: one attempt of the retry engine on select_upstream, and,
\* when retry_with_policy returns, the match on its result: Ok records a
\* breaker success and remembers the peer; Err records a breaker failure and
\* RETRIES_TOTAL.inc(), and the request ends with the selection error
UpstreamPeer(r) ==
    /\ requests[r].pc = "upstream_peer"
    /\ \/ requests[r].run.phase = "head"
       \/ requests[r].run.phase = "sleep" /\ now >= requests[r].wake_at
    /\ LET st == Retry_attempt(retry_policy, requests[r].run,
                               select_upstream_ret(load_balancer))
           invoked == st.calls > requests[r].run.calls
           m == IF invoked THEN select_upstream_metrics(load_balancer, metrics) ELSE metrics
       IN  /\ load_balancer' = IF invoked THEN LoadBalancer_select(load_balancer)
                               ELSE load_balancer
           /\ CASE st.phase = "sleep" ->
                     /\ requests' = [requests EXCEPT
                                       ![r].run = st,
                                       ![r].wake_at = now + st.slept[Len(st.slept)]]
                     /\ metrics' = m
                     /\ UNCHANGED <<circuit_breaker, pipeHist>>
                [] st.phase = "done" /\ st.result = "ok" ->
                     /\ circuit_breaker' = CircuitBreaker_record_success(circuit_breaker)
                     /\ requests' = [requests EXCEPT
                                       ![r].run = st, ![r].pc = "forward",
                                       ![r].upstream_addr = LoadBalancer_select_ret(load_balancer)]
                     /\ metrics' = m
                     /\ pipeHist' = [pipeHist EXCEPT !.admitted =
                                        IF circuit_breaker'.state = "HalfOpen" THEN @ ELSE 0]
                [] st.phase = "done" /\ st.result = "err" ->
                     /\ circuit_breaker' = CircuitBreaker_record_failure(circuit_breaker, now)
                     /\ requests' = [requests EXCEPT
                                       ![r].run = st, ![r].pc = "done", ![r].status = 500]
                     /\ metrics' = inc(m, "retries_total")
                     /\ pipeHist' = [pipeHist EXCEPT !.admitted =
                                        IF circuit_breaker'.state = "HalfOpen" THEN @ ELSE 0]
                [] st.phase = "done" /\ st.result = "panic" ->
                     /\ requests' = [requests EXCEPT
                                       ![r].run = st, ![r].pc = "done", ![r].status = 500]
                     /\ metrics' = m
                     /\ UNCHANGED <<circuit_breaker, pipeHist>>
    /\ UNCHANGED <<now, sideVars, cbLast, cbCount, tbVars, rtVars, upstream>>

\* after upstream_peer returned a peer: the connection to it.  A peer that
\* is up answers: LB::response_filter observes the duration once and the
\* response is relayed with the status the peer gave.  A peer that is down
\* refuses the connection: the request ends with an error and
\* response_filter is not run.  No handler hands either outcome to the retry
\* engine; forwards counts the connections made for the request.
Forward(r) ==
    /\ requests[r].pc = "forward"
    /\ IF upstream[requests[r].upstream_addr]
       THEN /\ metrics' = inc(metrics, "request_duration_count")
            /\ \E resp \in Responses :
                  requests' = [requests EXCEPT ![r].pc = "done", ![r].status = resp,
                                               ![r].forwards = @ + 1]
       ELSE /\ requests' = [requests EXCEPT ![r].pc = "done", ![r].status = 502,
                                            ![r].forwards = @ + 1]
            /\ UNCHANGED metrics
    /\ UNCHANGED <<now, sideVars, cbVars, tbVars, rtVars, load_balancer, upstream, pipeHist>>

\* the background health check (bootstrap.rs): a TCP probe of peer p sets its
\* health bit to the outcome of the connect
HealthCheck(p) ==
    /\ load_balancer.healthy[p] # upstream[p]
    /\ load_balancer' = [load_balancer EXCEPT !.healthy[p] = upstream[p]]
    /\ UNCHANGED <<now, sideVars, cbVars, tbVars, rtVars, requests, metrics, upstream, pipeHist>>

\* environment: peer p starts or stops accepting connections
UpstreamFlip(p) ==
    /\ upstream' = [upstream EXCEPT ![p] = ~upstream[p]]
    /\ pipeHist' = [pipeHist EXCEPT !.ever_up = TRUE]
    /\ UNCHANGED <<now, sideVars, cbVars, tbVars, rtVars, requests, metrics, load_balancer>>

----------------------------------------------------------------------------
(* proxy.rs: the log records of a request *)

\* str::find(c): the position of the first c in s, 0 for None
Find(s, c) ==
    IF \E i \in 1..Len(s) : s[i] = c
    THEN Least({ i \in 1..Len(s) : s[i] = c })
    ELSE 0

RECURSIVE Split(_, _)
\* str::split(c): the pieces of s between the occurrences of c
Split(s, c) ==
    IF Find(s, c) = 0
    THEN <<s>>
    ELSE <<SubSeq(s, 1, Find(s, c) - 1)>>
            \o Split(SubSeq(s, Find(s, c) + 1, Len(s)), c)

RECURSIVE query_keys(_)
\* the filter_map of summarize_query: an empty pair is dropped, the key is
\* what precedes the first '=', a pair with an empty key is dropped
query_keys(pairs) ==
    IF pairs = <<>>
    THEN <<>>
    ELSE LET pair == Head(pairs)
             key == Head(Split(pair, "="))
         IN  IF pair = <<>> \/ key = <<>>
             THEN query_keys(Tail(pairs))
             ELSE <<key>> \o query_keys(Tail(pairs))

\* summarize_query
summarize_query(uri) ==
    IF Find(uri, "?") = 0
    THEN <<>>
    ELSE query_keys(Split(SubSeq(uri, Find(uri, "?") + 1, Len(uri)), "&"))

\* the names and the values a client puts in a query string
Keys == { <<"a">>, <<"b">> }
Values == { <<"x">>, <<"y">> }

\* the query strings of up to MaxParams parameters, each a key and a value
Queries ==
    UNION { [1..n -> [key : Keys, value : Values]] : n \in 0..MaxParams }

RECURSIVE JoinParams(_)
\* key=value pairs joined with '&'
JoinParams(q) ==
    IF Len(q) = 1
    THEN q[1].key \o <<"=">> \o q[1].value
    ELSE q[1].key \o <<"=">> \o q[1].value \o <<"&">> \o JoinParams(Tail(q))

\* the request line a client sends: session.req_header() holds the method and
\* the URI, i.e. the path and, after '?', the query string
Session_new(method, q) ==
    [ method |-> method,
      uri |-> IF q = <<>> THEN <<"/">> ELSE <<"/", "?">> \o JoinParams(q) ]

\* two query strings with the same parameter names in the same order
SameKeys(q1, q2) ==
    /\ Len(q1) = Len(q2)
    /\ \A i \in 1..Len(q1) : q1[i].key = q2[i].key

\* the fields of the request_start record of request_filter, but for
\* request_id
RequestStartRecord(session) ==
    [ event |-> "request_start",
      method |-> session.method,
      uri |-> session.uri,
      query_keys |-> summarize_query(session.uri) ]

\* the fields of the request_end record of logging, but for request_id and
\* duration_ms
RequestEndRecord(session, upstream_addr) ==
    [ event |-> "request_end",
      method |-> session.method,
      uri |-> session.uri,
      upstream |-> upstream_addr ]

\* the fields of the request_error record of logging, but for request_id and
\* duration_ms
RequestErrorRecord(session, upstream_addr, err) ==
    [ event |-> "request_error",
      method |-> session.method,
      uri |-> session.uri,
      upstream |-> upstream_addr,
      error |-> err ]

\* the errors a request can end with
LogErrors == {"select upstream failed", "connect refused"}

\* no request is being logged, no configuration is being loaded, no pool is
\* being selected from
SideIdle ==
    /\ sessions = <<>>
    /\ logs = <<>>
    /\ config_file = <<>>
    /\ config = <<>>
    /\ picks = <<>>

----------------------------------------------------------------------------
(* config.rs, bootstrap.rs: loading the configuration *)

\* the numeric fields of ProxyConfig that the proxy's components are built
\* from; serde treats every field of every section alike (no field carries
\* a default attribute)
Fields ==
    { "requests_per_second", "burst_size", "failure_threshold",
      "recovery_timeout_secs", "max_attempts" }

\* ProxyConfig::default
ProxyConfig_default ==
    [ requests_per_second |-> 1000,
      burst_size |-> 100,
      failure_threshold |-> 5,
      recovery_timeout_secs |-> 30,
      max_attempts |-> 3 ]

\* what may stand at config.json: nothing that can be read and parsed, or a
\* JSON document that gives values to some of the fields
ConfigFiles ==
    { [readable |-> FALSE, fields |-> <<>>] }
        \cup { [readable |-> TRUE, fields |-> f] :
                 f \in UNION { [S -> 1..MaxFileValue] : S \in SUBSET Fields } }

\* ProxyConfig::load_from_file: whether it returns Ok.  read_to_string and
\* from_str must succeed, and the derived Deserialize fails on a document
\* that lacks a field
load_from_file_ok(file) ==
    /\ file.readable
    /\ \A k \in Fields : k \in DOMAIN file.fields

\* ProxyConfig::load_from_file: the value inside Ok
load_from_file(file) == [k \in Fields |-> file.fields[k]]

\* run: load_from_file("config.json").unwrap_or_else(|e| ProxyConfig::default())
run_config(file) ==
    IF load_from_file_ok(file) THEN load_from_file(file) ELSE ProxyConfig_default

----------------------------------------------------------------------------
(* The clock *)

Tick ==
    /\ now < MaxTime
    /\ now' = now + 1
    /\ UNCHANGED <<cbVars, tbVars, rtVars, plVars, sideVars>>

----------------------------------------------------------------------------
(* The breaker on its own: any sequence of calls at any times *)

InitBreaker ==
    /\ now = 0
    /\ circuit_breaker \in
          { CircuitBreaker_new(T, R, H, en) :
              T \in 1..MaxThreshold, R \in 1..MaxRecovery,
              H \in 1..MaxHalfOpen, en \in BOOLEAN }
    /\ cbLast = CbCall("none", TRUE, circuit_breaker, circuit_breaker, 0)
    /\ cbCount = [consec |-> 0, probes |-> 0]
    /\ rate_limiter = RateLimiter_new(0, 1, FALSE, 0)
    /\ tbLast = TbCall("none", 0, TRUE, rate_limiter, rate_limiter, 0)
    /\ grants = <<>>
    /\ burst = NoBurst
    /\ SideIdle
    /\ retry_policy = RetryPolicy_new(1, 1, 2, FALSE)
    /\ run = Retry_start
    /\ outcomes = <<>>
    /\ requests = [r \in Requests |-> Request_new]
    /\ metrics = Metrics_new
    /\ load_balancer = LoadBalancer_new
    /\ upstream = [p \in Peers |-> TRUE]
    /\ pipeHist = [ever_up |-> TRUE, admitted |-> 0]

BreakerCanExecute == CallCanExecute /\ UNCHANGED <<now, sideVars, tbVars, rtVars, plVars>>

BreakerRecordSuccess == CallRecordSuccess /\ UNCHANGED <<now, sideVars, tbVars, rtVars, plVars>>

BreakerRecordFailure == CallRecordFailure /\ UNCHANGED <<now, sideVars, tbVars, rtVars, plVars>>

NextBreaker ==
    \/ BreakerCanExecute
    \/ BreakerRecordSuccess
    \/ BreakerRecordFailure
    \/ Tick

SpecBreaker == InitBreaker /\ [][NextBreaker]_vars

----------------------------------------------------------------------------
(* The breaker as the proxy drives it, for ever: each slot of `requests`
   carries one request after the other through the breaker's part of the
   pipeline (request_filter asks can_execute, upstream_peer reports the
   outcome of the selection), concurrently with the health check.  The
   requests in flight are interchangeable, so the busy slots are kept a
   prefix: a request arrives in the lowest free slot and a request that
   finishes frees the highest busy one.  cbCount is kept as the calls keep
   it; cbLast is left alone. *)

\* time passes while the breaker recovers
RecoveryTick == now < PipeMaxTime /\ Tick

InitRecovery ==
    /\ now = 0
    /\ circuit_breaker \in
          { CircuitBreaker_new(T, R, H, TRUE) :
              T \in {1, 2}, R \in {1, 2}, H \in {1, 2} }
    /\ cbLast = CbCall("none", TRUE, circuit_breaker, circuit_breaker, 0)
    /\ cbCount = [consec |-> 0, probes |-> 0]
    /\ rate_limiter = RateLimiter_new(0, 1, FALSE, 0)
    /\ tbLast = TbCall("none", 0, TRUE, rate_limiter, rate_limiter, 0)
    /\ grants = <<>>
    /\ burst = NoBurst
    /\ SideIdle
    /\ retry_policy = RetryPolicy_new(1, 1, 2, FALSE)
    /\ run = Retry_start
    /\ outcomes = <<>>
    /\ requests = [r \in Requests |-> Request_new]
    /\ metrics = Metrics_new
    /\ load_balancer = LoadBalancer_new
    /\ upstream = [p \in Peers |-> TRUE]
    /\ pipeHist = [ever_up |-> TRUE, admitted |-> 0]

\* LB::request_filter at the breaker decision, for the request in slot r: an
\* admitted request goes on to upstream_peer, a rejected one is answered 503
\* and the slot is free for the next request
RecoveryAdmit(r) ==
    /\ requests[r].pc = "new"
    /\ r > 1 => requests[r - 1].pc # "new"
    /\ circuit_breaker' = CircuitBreaker_can_execute(circuit_breaker, now)
    /\ cbCount' = IF circuit_breaker.state = "Open" /\ circuit_breaker'.state = "HalfOpen"
                  THEN [cbCount EXCEPT !.probes = 0]
                  ELSE cbCount
    /\ requests' = IF CircuitBreaker_can_execute_ret(circuit_breaker, now)
                   THEN [requests EXCEPT ![r].pc = "upstream_peer"]
                   ELSE requests
    /\ UNCHANGED <<now, sideVars, cbLast, tbVars, rtVars, metrics, load_balancer, upstream, pipeHist>>

\* LB::upstream_peer for the request in slot r when the selection returns a
\* peer: record_success, and the slot is free for the next request
RecoverySelected(r) ==
    /\ requests[r].pc = "upstream_peer"
    /\ r < NumRequests => requests[r + 1].pc = "new"
    /\ LoadBalancer_select_ret(load_balancer) # NoPeer
    /\ circuit_breaker' = CircuitBreaker_record_success(circuit_breaker)
    /\ cbCount' = [consec |-> 0,
                   probes |-> IF circuit_breaker.state = "HalfOpen"
                              THEN Min(cbCount.probes + 1, MaxCount)
                              ELSE cbCount.probes]
    /\ load_balancer' = LoadBalancer_select(load_balancer)
    /\ requests' = [requests EXCEPT ![r].pc = "new"]
    /\ UNCHANGED <<now, sideVars, cbLast, tbVars, rtVars, metrics, upstream, pipeHist>>

\* LB::upstream_peer for the request in slot r when no peer is healthy:
\* record_failure, and the slot is free for the next request
RecoveryNoUpstream(r) ==
    /\ requests[r].pc = "upstream_peer"
    /\ r < NumRequests => requests[r + 1].pc = "new"
    /\ LoadBalancer_select_ret(load_balancer) = NoPeer
    /\ circuit_breaker.failure_count < MaxCount
    /\ cbCount.consec < MaxCount
    /\ circuit_breaker' = CircuitBreaker_record_failure(circuit_breaker, now)
    /\ cbCount' = [consec |-> cbCount.consec + 1, probes |-> 0]
    /\ requests' = [requests EXCEPT ![r].pc = "new"]
    /\ UNCHANGED <<now, sideVars, cbLast, tbVars, rtVars, metrics, load_balancer, upstream, pipeHist>>

NextRecovery ==
    \/ \E r \in Requests : RecoveryAdmit(r)
    \/ \E r \in Requests : RecoverySelected(r)
    \/ \E r \in Requests : RecoveryNoUpstream(r)
    \/ \E p \in Peers : HealthCheck(p)
    \/ \E p \in Peers : UpstreamFlip(p)
    \/ RecoveryTick

\* time passes, requests keep arriving, and a request whose selection
\* succeeds finishes upstream_peer (the handlers are tasks of the tokio
\* runtime and none of these steps waits for another request)
SpecRecovery ==
    /\ InitRecovery
    /\ [][NextRecovery]_vars
    /\ WF_vars(RecoveryTick)
    /\ \A r \in Requests : WF_vars(RecoveryAdmit(r))
    /\ \A r \in Requests : WF_vars(RecoverySelected(r))

----------------------------------------------------------------------------
(* The proxy: requests run the pipeline concurrently with the health check *)

\* time passes while the proxy runs
PipeTick == now < PipeMaxTime /\ Tick

Init ==
    /\ now = 0
    /\ rate_limiter \in { RateLimiter_new(1, c, TRUE, 0) : c \in {1, 2} }
    /\ tbLast = TbCall("none", 0, TRUE, rate_limiter, rate_limiter, 0)
    /\ grants = <<>>
    /\ burst = NoBurst
    /\ SideIdle
    /\ circuit_breaker \in
          { CircuitBreaker_new(T, 2, H, TRUE) : T \in {1, 2}, H \in {1, 2} }
    /\ cbLast = CbCall("none", TRUE, circuit_breaker, circuit_breaker, 0)
    /\ cbCount = [consec |-> 0, probes |-> 0]
    /\ retry_policy = RetryPolicy_new(2, 1, 2, TRUE)
    /\ run = Retry_start
    /\ outcomes = <<>>
    /\ requests = [r \in Requests |-> Request_new]
    /\ metrics = Metrics_new
    /\ load_balancer = LoadBalancer_new
    /\ upstream \in [Peers -> BOOLEAN]
    /\ pipeHist = [ever_up |-> \E p \in Peers : upstream[p], admitted |-> 0]

Next ==
    \/ \E r \in Requests : RequestFilterRateLimit(r)
    \/ \E r \in Requests : RequestFilterBreaker(r)
    \/ \E r \in Requests : UpstreamPeer(r)
    \/ \E r \in Requests : Forward(r)
    \/ \E p \in Peers : HealthCheck(p)
    \/ \E p \in Peers : UpstreamFlip(p)
    \/ PipeTick

Spec == Init /\ [][Next]_vars

\* every request has been answered
AllServed == \A r \in Requests : requests[r].pc = "done"

\* The proxy with every request served to the end: the clock advances while
\* it may, the clients send all their requests and the runtime runs every
\* handler up to its end.  A handler takes finitely many steps and none
\* after its end, so weak fairness of the handlers' steps says the same as
\* <>AllServed.
SpecServed ==
    /\ Init
    /\ [][Next]_vars
    /\ WF_vars(PipeTick)
    /\ <>AllServed

----------------------------------------------------------------------------
(* Properties of the circuit breaker *)

\* C1: from Closed with failure_count = 0 the breaker opens exactly at the
\* failure_threshold-th consecutive record_failure and not earlier; a
\* record_success in Closed resets failure_count to 0, so the full number
\* of consecutive failures is needed again.
C1_Thresholding ==
    circuit_breaker.enabled =>
      /\ circuit_breaker.state = "Closed" =>
            /\ cbCount.consec < circuit_breaker.failure_threshold
            /\ circuit_breaker.failure_count = cbCount.consec
      /\ (cbLast.op = "record_failure" /\ cbLast.pre.state = "Closed") =>
            /\ cbLast.post.state \in {"Closed", "Open"}
            /\ cbLast.post.state = "Open" <=>
                  cbCount.consec = circuit_breaker.failure_threshold
      /\ (cbLast.op = "record_success" /\ cbLast.pre.state = "Closed") =>
            /\ cbLast.post.state = "Closed"
            /\ cbLast.post.failure_count = 0

\* C1 happens: the breaker has just opened on the threshold-th consecutive
\* failure, the threshold being larger than one.
C1_Witness ==
    /\ circuit_breaker.enabled
    /\ circuit_breaker.failure_threshold >= 2
    /\ cbLast.op = "record_failure"
    /\ cbLast.pre.state = "Closed"
    /\ cbLast.post.state = "Open"
    /\ cbCount.consec = circuit_breaker.failure_threshold

\* C2: while Open, a can_execute() before recovery_timeout has elapsed since
\* last_failure_instant returns false and leaves the state Open; a
\* can_execute() once it has elapsed returns true and moves the state to
\* HalfOpen with success_count = 0.
C2_Recovery ==
    (circuit_breaker.enabled /\ cbLast.op = "can_execute" /\ cbLast.pre.state = "Open") =>
      IF cbLast.at - cbLast.pre.last_failure_time >= cbLast.pre.recovery_timeout
      THEN /\ cbLast.ret
           /\ cbLast.post.state = "HalfOpen"
           /\ cbLast.post.success_count = 0
      ELSE /\ ~cbLast.ret
           /\ cbLast.post = cbLast.pre

\* C2 happens: a can_execute() found the breaker Open exactly when the
\* recovery timeout had elapsed and promoted it to HalfOpen.
C2_Witness ==
    /\ circuit_breaker.enabled
    /\ cbLast.op = "can_execute"
    /\ cbLast.pre.state = "Open"
    /\ cbLast.at - cbLast.pre.last_failure_time = cbLast.pre.recovery_timeout
    /\ cbLast.ret
    /\ circuit_breaker.state = "HalfOpen"

\* C3: from HalfOpen one record_failure moves the breaker to Open and stamps
\* last_failure_instant; half_open_max_calls record_success calls with no
\* failure in between move it to Closed with failure_count = 0,
\* success_count = 0 and last_failure_instant cleared; fewer successes
\* leave it HalfOpen.
C3_HalfOpenSealing ==
    circuit_breaker.enabled =>
      /\ circuit_breaker.state = "HalfOpen" =>
            cbCount.probes < circuit_breaker.half_open_max_calls
      /\ (cbLast.op = "record_failure" /\ cbLast.pre.state = "HalfOpen") =>
            /\ cbLast.post.state = "Open"
            /\ cbLast.post.last_failure_time = cbLast.at
      /\ (cbLast.op = "record_success" /\ cbLast.pre.state = "HalfOpen") =>
            IF cbCount.probes = circuit_breaker.half_open_max_calls
            THEN /\ cbLast.post.state = "Closed"
                 /\ cbLast.post.failure_count = 0
                 /\ cbLast.post.success_count = 0
                 /\ cbLast.post.last_failure_time = NoInstant
            ELSE /\ cbLast.post.state = "HalfOpen"
                 /\ cbCount.probes < circuit_breaker.half_open_max_calls

\* C3 happens: the second of two required probes has just closed the breaker.
C3_Witness ==
    /\ circuit_breaker.enabled
    /\ circuit_breaker.half_open_max_calls >= 2
    /\ cbLast.op = "record_success"
    /\ cbLast.pre.state = "HalfOpen"
    /\ cbLast.post.state = "Closed"
    /\ cbCount.probes = circuit_breaker.half_open_max_calls



\* the load balancer would return a peer: some health bit is true
SelectionSucceeds == LoadBalancer_select_ret(load_balancer) # NoPeer

\* the breaker is Closed with both counters reset
ClosedAndReset ==
    /\ circuit_breaker.state = "Closed"
    /\ circuit_breaker.failure_count = 0
    /\ circuit_breaker.success_count = 0

\* C11: recovery is live.  While the breaker is HalfOpen every arriving
\* request is admitted; and whenever the breaker is Open (its recovery
\* timeout ending within the horizon of the clock), then, if from then on
\* every selection succeeds, with requests arriving for ever the breaker
\* reaches Closed with failure_count = 0 and success_count = 0.  ("If
\* selections succeed for ever then eventually Closed" is "eventually Closed
\* or a moment where a selection would fail".)
C11_RecoveryLive ==
    /\ [](circuit_breaker.state = "HalfOpen" =>
             CircuitBreaker_can_execute_ret(circuit_breaker, now))
    /\ []((/\ circuit_breaker.state = "Open"
           /\ circuit_breaker.last_failure_time + circuit_breaker.recovery_timeout
                  <= PipeMaxTime)
             => <>(ClosedAndReset \/ ~SelectionSucceeds))

\* C11 happens: the breaker, with half_open_max_calls of two, has closed
\* on the second success recorded since it became HalfOpen
C11_Witness ==
    /\ circuit_breaker.half_open_max_calls = 2
    /\ cbCount.probes = 2
    /\ ClosedAndReset

\* C14: in every state the breaker reaches by any sequence of can_execute,
\* record_success and record_failure calls: Closed implies success_count = 0;
\* HalfOpen implies 0 <= success_count < half_open_max_calls; Open implies
\* last_failure_time is set.
C14_BreakerInvariants ==
    /\ circuit_breaker.state = "Closed" => circuit_breaker.success_count = 0
    /\ circuit_breaker.state = "HalfOpen" =>
          /\ 0 <= circuit_breaker.success_count
          /\ circuit_breaker.success_count < circuit_breaker.half_open_max_calls
    /\ circuit_breaker.state = "Open" => circuit_breaker.last_failure_time # NoInstant

\* C14 happens: the breaker is HalfOpen with a success counted and one more
\* to go, after at least one failure that had opened it
C14_Witness ==
    /\ circuit_breaker.state = "HalfOpen"
    /\ circuit_breaker.success_count = 1
    /\ circuit_breaker.half_open_max_calls = 2
    /\ circuit_breaker.last_failure_time # NoInstant
    /\ cbLast.op = "record_success"
----------------------------------------------------------------------------
(* The token bucket on its own: check() and try_acquire(n) at any times *)

InitBucket ==
    /\ now = 0
    /\ rate_limiter \in
          { RateLimiter_new(r, c, en, 0) :
              r \in 0..MaxRate, c \in 1..MaxCapacity, en \in BOOLEAN }
    /\ tbLast = TbCall("none", 0, TRUE, rate_limiter, rate_limiter, 0)
    /\ grants = <<>>
    /\ burst = NoBurst
    /\ SideIdle
    /\ circuit_breaker = CircuitBreaker_new(1, 1, 1, FALSE)
    /\ cbLast = CbCall("none", TRUE, circuit_breaker, circuit_breaker, 0)
    /\ cbCount = [consec |-> 0, probes |-> 0]
    /\ retry_policy = RetryPolicy_new(1, 1, 2, FALSE)
    /\ run = Retry_start
    /\ outcomes = <<>>
    /\ requests = [r \in Requests |-> Request_new]
    /\ metrics = Metrics_new
    /\ load_balancer = LoadBalancer_new
    /\ upstream = [p \in Peers |-> TRUE]
    /\ pipeHist = [ever_up |-> TRUE, admitted |-> 0]

\* RateLimiter::check_rate_limit called by some request
BucketCheck ==
    /\ CallCheckRateLimit
    /\ grants' = IF tbLast'.ret /\ rate_limiter.enabled
                 THEN Append(grants, now) ELSE grants
    /\ UNCHANGED <<now, sideVars, burst, cbVars, rtVars, plVars>>

\* TokenBucket::try_acquire(n) called directly on the bucket
BucketTryAcquire ==
    /\ rate_limiter.enabled
    /\ \E n \in 1..MaxAcquire :
          /\ rate_limiter' = TokenBucket_try_acquire(rate_limiter, n, now)
          /\ tbLast' = TbCall("try_acquire", n,
                              TokenBucket_try_acquire_ret(rate_limiter, n, now),
                              rate_limiter, rate_limiter', now)
    /\ UNCHANGED <<now, sideVars, grants, burst, cbVars, rtVars, plVars>>

NextBucket ==
    \/ BucketCheck
    \/ BucketTryAcquire
    \/ Tick

SpecBucket == InitBucket /\ [][NextBucket]_vars

----------------------------------------------------------------------------
(* The limiter as the proxy uses it: check() is the only call made on the
   bucket, at any instants after the limiter was built at instant 0 *)

InitBurst ==
    /\ now = 0
    /\ rate_limiter \in
          { RateLimiter_new(r, c, TRUE, 0) : r \in 1..MaxRate, c \in 1..MaxCapacity }
    /\ tbLast = TbCall("none", 0, TRUE, rate_limiter, rate_limiter, 0)
    /\ grants = <<>>
    /\ burst = NoBurst
    /\ SideIdle
    /\ circuit_breaker = CircuitBreaker_new(1, 1, 1, FALSE)
    /\ cbLast = CbCall("none", TRUE, circuit_breaker, circuit_breaker, 0)
    /\ cbCount = [consec |-> 0, probes |-> 0]
    /\ retry_policy = RetryPolicy_new(1, 1, 2, FALSE)
    /\ run = Retry_start
    /\ outcomes = <<>>
    /\ requests = [r \in Requests |-> Request_new]
    /\ metrics = Metrics_new
    /\ load_balancer = LoadBalancer_new
    /\ upstream = [p \in Peers |-> TRUE]
    /\ pipeHist = [ever_up |-> TRUE, admitted |-> 0]

\* RateLimiter::check_rate_limit called by some request
BurstCheck ==
    /\ CallCheckRateLimit
    /\ grants' = IF tbLast'.ret THEN Append(grants, now) ELSE grants
    /\ burst' = BurstAfter(burst, rate_limiter, now)
    /\ UNCHANGED <<now, sideVars, cbVars, rtVars, plVars>>

NextBurst ==
    \/ BurstCheck
    \/ Tick

SpecBurst == InitBurst /\ [][NextBurst]_vars

\* The same for a limiter built with requests_per_second = 0
InitOneShot ==
    /\ now = 0
    /\ rate_limiter \in
          { RateLimiter_new(0, c, TRUE, 0) : c \in 1..MaxCapacity }
    /\ tbLast = TbCall("none", 0, TRUE, rate_limiter, rate_limiter, 0)
    /\ grants = <<>>
    /\ burst = NoBurst
    /\ SideIdle
    /\ circuit_breaker = CircuitBreaker_new(1, 1, 1, FALSE)
    /\ cbLast = CbCall("none", TRUE, circuit_breaker, circuit_breaker, 0)
    /\ cbCount = [consec |-> 0, probes |-> 0]
    /\ retry_policy = RetryPolicy_new(1, 1, 2, FALSE)
    /\ run = Retry_start
    /\ outcomes = <<>>
    /\ requests = [r \in Requests |-> Request_new]
    /\ metrics = Metrics_new
    /\ load_balancer = LoadBalancer_new
    /\ upstream = [p \in Peers |-> TRUE]
    /\ pipeHist = [ever_up |-> TRUE, admitted |-> 0]

SpecOneShot == InitOneShot /\ [][NextBurst]_vars

----------------------------------------------------------------------------
(* The retry engine on its own: one retry_with_policy call whose operation
   returns any result at each invocation *)

\* the results an invocation of the operation can return
Outcomes ==
    {Ok} \cup { Err(RetryableError_new(m, f)) : m \in Messages, f \in BOOLEAN }

InitRetry ==
    /\ now = 0
    /\ retry_policy \in
          { RetryPolicy_new(n, b, m, en) :
              n \in 0..MaxAttempts, b \in 1..MaxBackoffBase,
              m \in 2..MaxBackoffMax, en \in BOOLEAN }
    /\ run = Retry_start
    /\ outcomes = <<>>
    /\ circuit_breaker = CircuitBreaker_new(1, 1, 1, FALSE)
    /\ cbLast = CbCall("none", TRUE, circuit_breaker, circuit_breaker, 0)
    /\ cbCount = [consec |-> 0, probes |-> 0]
    /\ rate_limiter = RateLimiter_new(0, 1, FALSE, 0)
    /\ tbLast = TbCall("none", 0, TRUE, rate_limiter, rate_limiter, 0)
    /\ grants = <<>>
    /\ burst = NoBurst
    /\ SideIdle
    /\ requests = [r \in Requests |-> Request_new]
    /\ metrics = Metrics_new
    /\ load_balancer = LoadBalancer_new
    /\ upstream = [p \in Peers |-> TRUE]
    /\ pipeHist = [ever_up |-> TRUE, admitted |-> 0]

\* the head of the for loop
RetryHead ==
    /\ run.phase = "head"
    /\ run' = Retry_head(retry_policy, run)
    /\ UNCHANGED <<now, sideVars, retry_policy, outcomes, cbVars, tbVars, plVars>>

\* the backoff sleep is over
RetryWake ==
    /\ run.phase = "sleep"
    /\ run' = Retry_wake(run)
    /\ UNCHANGED <<now, sideVars, retry_policy, outcomes, cbVars, tbVars, plVars>>

\* the operation is invoked and its result matched
RetryInvoke ==
    /\ run.phase = "call"
    /\ \E o \in Outcomes :
          /\ run' = Retry_outcome(retry_policy, run, o)
          /\ outcomes' = Append(outcomes, o)
    /\ UNCHANGED <<now, sideVars, retry_policy, cbVars, tbVars, plVars>>

NextRetry ==
    \/ RetryHead
    \/ RetryWake
    \/ RetryInvoke

SpecRetry == InitRetry /\ [][NextRetry]_vars

----------------------------------------------------------------------------
(* The log records of two requests that differ in parameter values only *)

\* the breaker, the limiter, the retry engine and the request handlers at
\* rest
CoreIdle ==
    /\ now = 0
    /\ retry_policy = RetryPolicy_new(1, 1, 2, FALSE)
    /\ run = Retry_start
    /\ outcomes = <<>>
    /\ circuit_breaker = CircuitBreaker_new(1, 1, 1, FALSE)
    /\ cbLast = CbCall("none", TRUE, circuit_breaker, circuit_breaker, 0)
    /\ cbCount = [consec |-> 0, probes |-> 0]
    /\ rate_limiter = RateLimiter_new(0, 1, FALSE, 0)
    /\ tbLast = TbCall("none", 0, TRUE, rate_limiter, rate_limiter, 0)
    /\ grants = <<>>
    /\ burst = NoBurst
    /\ requests = [r \in Requests |-> Request_new]
    /\ metrics = Metrics_new
    /\ pipeHist = [ever_up |-> TRUE, admitted |-> 0]

\* the pool of the proxy at rest
PoolIdle ==
    /\ load_balancer = LoadBalancer_new
    /\ upstream = [p \in Peers |-> TRUE]

InitLog ==
    /\ CoreIdle
    /\ PoolIdle
    /\ sessions \in
          { <<Session_new("GET", qq[1]), Session_new("GET", qq[2])>> :
              qq \in { pr \in Queries \X Queries : SameKeys(pr[1], pr[2]) } }
    /\ logs = <<(<<>>), (<<>>)>>
    /\ config_file = <<>>
    /\ config = <<>>
    /\ picks = <<>>

\* request_filter: the request_start record, for each of the two requests
LogRequestStart ==
    /\ Len(logs[1]) = 0
    /\ logs' = [i \in 1..2 |-> Append(logs[i], RequestStartRecord(sessions[i]))]
    /\ UNCHANGED <<now, sessions, cfVars, picks, cbVars, tbVars, rtVars, plVars>>

\* logging with e = None: the request_end record; both requests took the
\* same way through the proxy, to the same upstream
LogRequestEnd ==
    /\ Len(logs[1]) = 1
    /\ \E addr \in {NoPeer} \cup Peers :
          logs' = [i \in 1..2 |-> Append(logs[i], RequestEndRecord(sessions[i], addr))]
    /\ UNCHANGED <<now, sessions, cfVars, picks, cbVars, tbVars, rtVars, plVars>>

\* logging with e = Some(err): the request_error record
LogRequestError ==
    /\ Len(logs[1]) = 1
    /\ \E addr \in {NoPeer} \cup Peers : \E err \in LogErrors :
          logs' = [i \in 1..2 |->
                     Append(logs[i], RequestErrorRecord(sessions[i], addr, err))]
    /\ UNCHANGED <<now, sessions, cfVars, picks, cbVars, tbVars, rtVars, plVars>>

NextLog ==
    \/ LogRequestStart
    \/ LogRequestEnd
    \/ LogRequestError

SpecLog == InitLog /\ [][NextLog]_vars

----------------------------------------------------------------------------
(* The pool on its own: selections, probes and peers going up and down *)

InitBalancer ==
    /\ CoreIdle
    /\ \E n \in 1..MaxPool :
          /\ load_balancer = LoadBalancer_try_from_iter(n)
          /\ upstream \in [1..n -> BOOLEAN]
    /\ picks = <<>>
    /\ sessions = <<>>
    /\ logs = <<>>
    /\ config_file = <<>>
    /\ config = <<>>

\* a handler calls load_balancer.select; picks keeps the peer returned and
\* whether every peer was healthy at that moment
BalancerSelect ==
    /\ Len(picks) < MaxPicks
    /\ load_balancer' = LoadBalancer_select(load_balancer)
    /\ picks' = Append(picks,
                       [ peer |-> LoadBalancer_select_ret(load_balancer),
                         all_healthy |-> \A p \in DOMAIN load_balancer.healthy :
                                            load_balancer.healthy[p] ])
    /\ UNCHANGED <<now, lgVars, cfVars, cbVars, tbVars, rtVars,
                   requests, metrics, upstream, pipeHist>>

NextBalancer ==
    \/ BalancerSelect
    \/ \E p \in DOMAIN load_balancer.healthy : HealthCheck(p)
    \/ \E p \in DOMAIN load_balancer.healthy : UpstreamFlip(p)

SpecBalancer == InitBalancer /\ [][NextBalancer]_vars

\* C26: when the breaker is disabled, can_execute returns true after any
\* sequence of record_failure and record_success calls, no call changes the
\* inner state (it is as new() built it), and get_state reports Closed.
C26_DisabledBreakerInert ==
    ~circuit_breaker.enabled =>
        /\ CircuitBreaker_can_execute_ret(circuit_breaker, now)
        /\ cbLast.op = "can_execute" => cbLast.ret
        /\ cbLast.post = cbLast.pre
        /\ circuit_breaker =
              CircuitBreaker_new(circuit_breaker.failure_threshold,
                                 circuit_breaker.recovery_timeout,
                                 circuit_breaker.half_open_max_calls, FALSE)
        /\ CircuitBreaker_get_state(circuit_breaker) = "Closed"

\* C26 happens: a disabled breaker with threshold 1 was told of three
\* failures in a row, and the can_execute after them returned true
C26_Witness ==
    /\ ~circuit_breaker.enabled
    /\ circuit_breaker.failure_threshold = 1
    /\ cbCount.consec = 3
    /\ cbLast.op = "can_execute"
    /\ cbLast.ret

----------------------------------------------------------------------------
(* The start of the process: the configuration is loaded once *)

InitConfig ==
    /\ CoreIdle
    /\ PoolIdle
    /\ config_file \in ConfigFiles
    /\ config = <<>>
    /\ sessions = <<>>
    /\ logs = <<>>
    /\ picks = <<>>

\* run: the configuration the process works with from now on
LoadConfig ==
    /\ DOMAIN config = {}
    /\ config' = run_config(config_file)
    /\ UNCHANGED <<now, config_file, lgVars, picks, cbVars, tbVars, rtVars, plVars>>

NextConfig == LoadConfig

SpecConfig == InitConfig /\ [][NextConfig]_vars

----------------------------------------------------------------------------
(* Properties of the token bucket *)

\* the number of grants inside the window that starts at the i-th grant and
\* ends at the j-th grant, against capacity + floor(rate * window length)
WindowWithinBudget(i, j) ==
    (j - i + 1) <= rate_limiter.capacity
                   + ((rate_limiter.refill_rate * (grants[j] - grants[i])) \div TicksPerSec)

\* C4: for a bucket of capacity C refilling at r tokens per second, the
\* number of check() calls that return true inside any time window
\* [t, t+D] is at most C + floor(r*D).
C4_WindowBudget ==
    \A i \in 1..Len(grants) : \A j \in i..Len(grants) : WindowWithinBudget(i, j)

\* C5: in every reachable state of the token bucket tokens is an integer
\* with 0 <= tokens <= capacity.
C5_TokensInRange ==
    /\ rate_limiter.tokens \in Nat
    /\ rate_limiter.tokens <= rate_limiter.capacity

\* C5 happens: a refill that would have overshot the capacity was clamped,
\* and a later acquisition emptied the bucket.
C5_Witness ==
    /\ rate_limiter.enabled
    /\ tbLast.op \in {"check", "try_acquire"}
    /\ tbLast.ret
    /\ tbLast.pre.tokens + tokens_to_add(tbLast.pre, tbLast.at) > tbLast.pre.capacity
    /\ tbLast.post.tokens = tbLast.pre.capacity - tbLast.n


\* C27: when the rate limiter is disabled, check() returns true at every
\* call, whatever rate and burst are configured and whenever it is called,
\* and the bucket stays as new() built it: tokens and last_refill never
\* change.
C27_DisabledLimiterInert ==
    ~rate_limiter.enabled =>
        /\ RateLimiter_check_rate_limit_ret(rate_limiter, now)
        /\ tbLast.op = "check" => tbLast.ret /\ tbLast.post = tbLast.pre
        /\ rate_limiter =
              RateLimiter_new(rate_limiter.refill_rate, rate_limiter.capacity, FALSE, 0)

\* C27 happens: a disabled limiter of one token and one token per second
\* answered true to a check() made three ticks after its construction
C27_Witness ==
    /\ ~rate_limiter.enabled
    /\ rate_limiter.capacity = 1
    /\ rate_limiter.refill_rate = 1
    /\ tbLast.op = "check"
    /\ tbLast.ret
    /\ tbLast.at = 3
    /\ now = 4

\* C29: with refill_rate = 0 the bucket is one-shot: of the check() calls of
\* its whole lifetime the first capacity ones return true and every later
\* one false, however much time elapses; so the calls that returned true and
\* the tokens left always add up to capacity.
C29_OneShot ==
    rate_limiter.refill_rate = 0 =>
        /\ Len(grants) + rate_limiter.tokens = rate_limiter.capacity
        /\ tbLast.op = "check" =>
              (tbLast.ret <=>
                 Len(grants) - (IF tbLast.ret THEN 1 ELSE 0) < rate_limiter.capacity)

\* C29 happens: a bucket of two tokens and rate 0 has granted two calls, and
\* a call made five ticks after its construction was refused
C29_Witness ==
    /\ rate_limiter.refill_rate = 0
    /\ rate_limiter.capacity = 2
    /\ Len(grants) = 2
    /\ tbLast.op = "check"
    /\ ~tbLast.ret
    /\ tbLast.at = 5

\* C33: try_acquire(n) is all-or-nothing.  With the bucket as the refill
\* step leaves it, it returns true exactly when tokens >= n and then removes
\* exactly n tokens; otherwise it returns false and the bucket is as the
\* refill step left it, tokens and last_refill included.
C33_AllOrNothing ==
    (rate_limiter.enabled /\ tbLast.op \in {"check", "try_acquire"}) =>
        LET refilled == TokenBucket_refill(tbLast.pre, tbLast.at)
        IN  /\ tbLast.ret <=> refilled.tokens >= tbLast.n
            /\ tbLast.ret =>
                  tbLast.post = [refilled EXCEPT !.tokens = refilled.tokens - tbLast.n]
            /\ ~tbLast.ret => tbLast.post = refilled

\* C33 happens: try_acquire(2) met a bucket that the refill step had brought
\* from 0 to 1 token, and was refused with that token left in place
C33_Witness ==
    /\ rate_limiter.enabled
    /\ tbLast.op = "try_acquire"
    /\ tbLast.n = 2
    /\ ~tbLast.ret
    /\ tbLast.pre.tokens = 0
    /\ tbLast.post.tokens = 1
    /\ tbLast.post.last_refill = tbLast.at
    /\ tbLast.pre.last_refill < tbLast.at

\* C15: a burst of check() calls that starts with a full bucket, whenever
\* it starts after the construction of the bucket, and lasts for less than
\* 1/refill_rate gets exactly capacity acceptances: its first capacity calls
\* return true and all the others false (with requests_per_second = 1 and
\* burst_size = 2: the first 2 true, the others false).
C15_BurstExact ==
    burst.start # NoInstant =>
        burst.accepted = Min(burst.calls, rate_limiter.capacity)

\* the instants up to which a later acquisition is looked at
Later == now..(now + MaxCapacity * TicksPerSec)

----------------------------------------------------------------------------
(* Properties of the retry engine *)

\* every invocation so far failed with an error whose text matches the
\* retry classification
AlwaysFailedRetryableText ==
    \A i \in 1..Len(outcomes) :
        ~outcomes[i].ok /\ is_retryable_text(outcomes[i].error)

\* every invocation so far failed with an error built by
\* RetryableError::retryable
AlwaysFailedRetryableFlag ==
    \A i \in 1..Len(outcomes) :
        ~outcomes[i].ok /\ outcomes[i].error.is_retryable

\* C6: under an enabled policy with max_attempts = N >= 1 an operation that
\* fails every time with an error whose text matches the retry
\* classification is invoked exactly N times, and then an error is returned.
C6_RetryBudget ==
    (retry_policy.enabled /\ retry_policy.max_attempts >= 1 /\ AlwaysFailedRetryableText) =>
      /\ run.calls <= retry_policy.max_attempts
      /\ run.phase = "done" <=> run.calls = retry_policy.max_attempts
      /\ run.phase = "done" => run.result = "err"

\* C6 happens: three invocations failed with matching texts and the call
\* returned the error.
C6_Witness ==
    /\ retry_policy.enabled
    /\ retry_policy.max_attempts = 3
    /\ AlwaysFailedRetryableText
    /\ Len(outcomes) = 3
    /\ run.phase = "done"
    /\ run.result = "err"

\* C7: under an enabled policy an operation that always fails with an error
\* built by RetryableError::retryable(..), whatever its text, is invoked
\* exactly max_attempts times.
C7_RetryableFlagBudget ==
    (/\ retry_policy.enabled
     /\ retry_policy.max_attempts >= 1
     /\ AlwaysFailedRetryableFlag
     /\ run.phase = "done") =>
        run.calls = retry_policy.max_attempts

C21_DisabledOneAttempt ==
    ~retry_policy.enabled =>
        /\ run.slept = <<>>
        /\ run.calls = Len(outcomes)
        /\ run.calls <= 1
        /\ run.phase = "done" <=> run.calls = 1
        /\ run.phase = "done" =>
              IF outcomes[1].ok
              THEN run.result = "ok"
              ELSE run.result = "err" /\ run.error = outcomes[1].error

\* C21 happens: a disabled policy configured with three attempts, the single
\* invocation failed with RetryableError::retryable("connection reset"), an
\* error the classification calls retryable, and the call has returned
C21_Witness ==
    /\ ~retry_policy.enabled
    /\ retry_policy.max_attempts = 3
    /\ outcomes = <<Err(RetryableError_retryable(MsgConnectionReset))>>
    /\ run.phase = "done"
    /\ run.result = "err"

\* C22: the retry engine does not sleep before the first attempt, and the
\* sleep before attempt k (attempts counted from 1, k >= 2; the i-th sleep
\* of a call precedes attempt i + 1) is min(backoff_base * 2^(k-1), backoff_max).
C22_BackoffSchedule ==
    /\ run.attempt = 0 => run.slept = <<>>
    /\ \A i \in 1..Len(run.slept) :
          run.slept[i] = Min(retry_policy.backoff_base * Pow2(i), retry_policy.backoff_max)

----------------------------------------------------------------------------
(* Properties of the log records *)

\* C23: the log records of a request do not depend on the values of its
\* query parameters: two requests that differ only in these values get the
\* same records (request_id and timing apart).
C23_ValuesNotLogged ==
    sessions # <<>> => logs[1] = logs[2]

\* C32: retry_with_policy returns the outcome of its last invocation of the
\* operation.  An invocation that returns Ok ends the call with Ok at once,
\* so every invocation but the last one failed; and an Err that is returned
\* is, unchanged, the error of the last invocation.
C32_LastOutcomeReturned ==
    /\ run.calls = Len(outcomes)
    /\ \A i \in 1..(Len(outcomes) - 1) : ~outcomes[i].ok
    /\ (Len(outcomes) >= 1 /\ outcomes[Len(outcomes)].ok) =>
          run.phase = "done" /\ run.result = "ok"
    /\ (run.phase = "done" /\ run.result = "ok") =>
          Len(outcomes) >= 1 /\ outcomes[Len(outcomes)].ok
    /\ (run.phase = "done" /\ run.result = "err") =>
          /\ Len(outcomes) >= 1
          /\ ~outcomes[Len(outcomes)].ok
          /\ run.error = outcomes[Len(outcomes)].error

\* C32 happens: under max_attempts = 3 the operation failed twice with
\* "temporary failure", succeeded at its third invocation, and the call
\* returned Ok
C32_Witness ==
    /\ retry_policy.enabled
    /\ retry_policy.max_attempts = 3
    /\ outcomes = << Err(RetryableError_retryable(MsgTemporaryFailure)),
                     Err(RetryableError_retryable(MsgTemporaryFailure)),
                     Ok >>
    /\ run.calls = 3
    /\ run.phase = "done"
    /\ run.result = "ok"

----------------------------------------------------------------------------
(* Properties of the pool *)

\* the peers of the pool
Pool == DOMAIN load_balancer.healthy

\* C24: with n peers that are all healthy, any n consecutive selections
\* return every peer exactly once; with 2 peers the 1st and the 2nd
\* selection differ and the 3rd returns the peer of the 1st.
C24_RoundRobinFair ==
    LET n == Len(load_balancer.healthy)
    IN  /\ \A i \in 1..(Len(picks) - n + 1) :
              (\A j \in i..(i + n - 1) : picks[j].all_healthy) =>
                  { picks[j].peer : j \in i..(i + n - 1) } = Pool
        /\ (n = 2 /\ Len(picks) >= 3 /\ \A j \in 1..3 : picks[j].all_healthy) =>
              /\ picks[1].peer # picks[2].peer
              /\ picks[3].peer = picks[1].peer

\* C24 happens: a pool of two peers served three selections, every peer
\* healthy at each of them, and returned the first, the second and the first
C24_Witness ==
    /\ Len(load_balancer.healthy) = 2
    /\ Len(picks) = 3
    /\ \A j \in 1..3 : picks[j].all_healthy
    /\ picks[1].peer = 1
    /\ picks[2].peer = 2
    /\ picks[3].peer = 1

\* C25: a selection returns only a peer whose health bit is true at that
\* moment, and None exactly when no peer is healthy; so a peer the health
\* checker marked unhealthy is not returned until a probe marks it healthy.
C25_OnlyHealthySelected ==
    [][ Len(picks') > Len(picks) =>
          LET ret == picks'[Len(picks')].peer
          IN  /\ ret = NoPeer <=> \A p \in Pool : ~load_balancer.healthy[p]
              /\ ret # NoPeer => ret \in Pool /\ load_balancer.healthy[ret] ]_vars

\* C25 happens: of two peers the first is marked unhealthy and the cursor
\* stands on it; the selection skipped it and returned the second; an
\* earlier selection found no healthy peer
C25_Witness ==
    /\ Len(load_balancer.healthy) = 2
    /\ Len(picks) = 3
    /\ picks[1].peer = 1
    /\ picks[2].peer = NoPeer
    /\ picks[3].peer = 2
    /\ ~load_balancer.healthy[1]
    /\ load_balancer.healthy[2]

----------------------------------------------------------------------------
(* Properties of the configuration *)

\* C30: once the configuration is loaded, a field the file omits has its
\* built-in default and a field the file gives has the value given there;
\* everything is a default only when the file cannot be read or parsed.
C30_FieldwiseDefaults ==
    DOMAIN config # {} =>
        IF config_file.readable
        THEN \A k \in Fields :
                config[k] = IF k \in DOMAIN config_file.fields
                            THEN config_file.fields[k]
                            ELSE ProxyConfig_default[k]
        ELSE config = ProxyConfig_default

----------------------------------------------------------------------------
(* Properties of the proxy pipeline *)

\* no request is in flight
Quiescent == \A r \in Requests : requests[r].pc \in {"new", "done"}

\* C8: the 'no upstream available' error of LB selection is treated as
\* retryable: with retries enabled and max_attempts = N a request whose
\* selection keeps failing re-invokes it up to N times, so upstream_peer
\* fails only after N selection attempts.
C8_NoUpstreamRetried ==
    \A r \in Requests :
        (/\ retry_policy.enabled
         /\ requests[r].run.phase = "done"
         /\ requests[r].run.result = "err"
         /\ requests[r].run.error.message = MsgNoUpstream) =>
            requests[r].run.calls = retry_policy.max_attempts

\* C9: at any quiescent point every request counted in requests_total was
\* rejected by the rate limiter, rejected by the breaker, or completed with
\* exactly one request_duration_seconds observation, also in runs in which
\* upstream selection fails: rate_limited_total + circuit_breaker_open_total
\* + observations = requests_total.
C9_PipelineAccounting ==
    Quiescent =>
        metrics.rate_limited_total + metrics.circuit_breaker_open_total
          + metrics.request_duration_count = metrics.requests_total

\* C10: with the breaker enabled and an upstream that refuses connections,
\* once failure_threshold requests have failed the next request that reaches
\* the breaker before recovery_timeout is rejected with 503 without any
\* upstream selection, and circuit_breaker_open_total counts it, whatever
\* the health checker has done so far.
C10_OpenOnFailures ==
    \A r \in Requests :
        (/\ circuit_breaker.enabled
         /\ requests[r].pc \in {"upstream_peer", "forward", "done"}
         /\ requests[r].status # 429
         /\ requests[r].after_failures) =>
            /\ requests[r].status = 503
            /\ requests[r].run.calls = 0
            /\ metrics.circuit_breaker_open_total >= 1

\* C12: the breaker changes state only by the transitions of the table:
\* Closed -> Open, Open -> HalfOpen (at a moment when recovery_timeout has
\* elapsed since the last failure), HalfOpen -> Closed and HalfOpen -> Open;
\* in particular an Open breaker never becomes Closed directly, whatever the
\* interleaving of the concurrent requests' calls.
C12_TableTransitions ==
    [][ circuit_breaker'.state # circuit_breaker.state =>
          \/ /\ circuit_breaker.state = "Closed"
             /\ circuit_breaker'.state = "Open"
          \/ /\ circuit_breaker.state = "Open"
             /\ circuit_breaker'.state = "HalfOpen"
             /\ now - circuit_breaker.last_failure_time
                   >= circuit_breaker.recovery_timeout
          \/ /\ circuit_breaker.state = "HalfOpen"
             /\ circuit_breaker'.state \in {"Closed", "Open"} ]_vars

\* C13: HalfOpen allows a bounded number of probes: between entering
\* HalfOpen and leaving it at most half_open_max_calls requests are admitted
\* by can_execute(), also when the admitted requests are concurrent and have
\* not yet reported their result.
C13_HalfOpenProbesBounded ==
    circuit_breaker.state = "HalfOpen" =>
        pipeHist.admitted <= circuit_breaker.half_open_max_calls

\* the counters other than requests_total and those named in S are left as
\* they are by the step
CountersKeptBut(S) ==
    \A c \in (DOMAIN metrics) \ (S \cup {"requests_total"}) : metrics'[c] = metrics[c]

\* C17: the rate limiter is checked before the breaker.  A request arrives
\* with check() returning false exactly when it is answered 429; the step
\* that answers it increments rate_limited_total once and no other counter
\* of the pipeline, ends the request, and leaves the breaker (no can_execute,
\* no promotion of an Open breaker, no record_*) and the load balancer (no
\* selection) as they are; the request never takes another step.
C17_RateLimitedFrame ==
    [][ \A r \in Requests :
          /\ (requests[r].pc = "new" /\ requests'[r].pc # "new") =>
                (requests'[r].status = 429
                    <=> ~RateLimiter_check_rate_limit_ret(rate_limiter, now))
          /\ (requests[r].status # 429 /\ requests'[r].status = 429) =>
                /\ requests'[r].pc = "done"
                /\ requests'[r].run.calls = 0
                /\ metrics'.rate_limited_total = metrics.rate_limited_total + 1
                /\ CountersKeptBut({"rate_limited_total"})
                /\ circuit_breaker' = circuit_breaker
                /\ load_balancer' = load_balancer
          /\ requests[r].status = 429 => requests'[r] = requests[r] ]_vars

\* C17 happens: with a bucket of one token, request 1 took the token and
\* opened the breaker; when the recovery timeout had elapsed and a token was
\* back, request 2 took it and request 3 was answered 429 before request 2
\* reached the breaker: the breaker is still Open
C17_Witness ==
    /\ rate_limiter.capacity = 1
    /\ requests[1].status = 500
    /\ requests[2].pc = "breaker_check"
    /\ requests[3].status = 429
    /\ metrics.rate_limited_total = 1
    /\ circuit_breaker.state = "Open"
    /\ now - circuit_breaker.last_failure_time >= circuit_breaker.recovery_timeout

\* C18: a request reaches the breaker with can_execute() returning false
\* exactly when it is answered 503; the step that answers it increments
\* circuit_breaker_open_total once and no other counter, ends the request in
\* request_filter with no selection and no retry attempt made, and leaves
\* the breaker (failure_count and last_failure_time in particular), the
\* load balancer and the bucket as they are; the request never takes
\* another step.
C18_BreakerRejectedFrame ==
    [][ \A r \in Requests :
          /\ (requests[r].pc = "breaker_check" /\ requests'[r].pc # "breaker_check") =>
                (requests'[r].status = 503
                    <=> ~CircuitBreaker_can_execute_ret(circuit_breaker, now))
          /\ (requests[r].status # 503 /\ requests'[r].status = 503) =>
                /\ requests'[r].pc = "done"
                /\ requests'[r].run.calls = 0
                /\ requests'[r].upstream_addr = NoPeer
                /\ metrics'.circuit_breaker_open_total
                      = metrics.circuit_breaker_open_total + 1
                /\ metrics'.requests_total = metrics.requests_total
                /\ CountersKeptBut({"circuit_breaker_open_total"})
                /\ circuit_breaker' = circuit_breaker
                /\ load_balancer' = load_balancer
                /\ rate_limiter' = rate_limiter
          /\ requests[r].status = 503 => requests'[r] = requests[r] ]_vars

\* C18 happens: two failed selections have opened a breaker whose threshold
\* is two, and the next request has been answered 503
C18_Witness ==
    /\ circuit_breaker.failure_threshold = 2
    /\ circuit_breaker.state = "Open"
    /\ circuit_breaker.failure_count = 2
    /\ requests[1].status = 500
    /\ requests[2].status = 500
    /\ requests[3].status = 503
    /\ metrics.circuit_breaker_open_total = 1

\* the attempts made for request r: the selections that failed and the
\* connections made to a selected peer
AttemptsMade(r) ==
    requests[r].forwards
        + (IF requests[r].upstream_addr = NoPeer THEN requests[r].run.calls
           ELSE requests[r].run.calls - 1)

\* C19: with retries enabled, a request whose forwarding failed with a
\* connection error (502 here) or with a 504 from the peer is attempted
\* again while attempts remain, so it ends that way only once max_attempts
\* attempts have been made for it; a request answered with another error
\* status (404) is relayed after a single connection.
C19_ForwardFailuresRetried ==
    \A r \in Requests :
        (requests[r].pc = "done" /\ retry_policy.enabled) =>
            /\ requests[r].status \in {502, 504} =>
                   AttemptsMade(r) >= retry_policy.max_attempts
            /\ requests[r].status = 404 => requests[r].forwards = 1

----------------------------------------------------------------------------
(* The proxy with handlers that can be dropped inside upstream_peer *)

\* LB::upstream_peer up to the point where retry_with_policy returns: the
\* attempts of the retry engine on select_upstream.  When the engine has
\* returned, the handler goes on to the match on its result, whose first
\* statement awaits the breaker's lock.
SelectUpstream(r) ==
    /\ requests[r].pc = "upstream_peer"
    /\ \/ requests[r].run.phase = "head"
       \/ requests[r].run.phase = "sleep" /\ now >= requests[r].wake_at
    /\ LET st == Retry_attempt(retry_policy, requests[r].run,
                               select_upstream_ret(load_balancer))
           invoked == st.calls > requests[r].run.calls
       IN  /\ load_balancer' = IF invoked THEN LoadBalancer_select(load_balancer)
                               ELSE load_balancer
           /\ metrics' = IF invoked THEN select_upstream_metrics(load_balancer, metrics)
                         ELSE metrics
           /\ requests' = [requests EXCEPT
                 ![r].run = st,
                 ![r].pc = IF st.phase = "done" THEN "match" ELSE @,
                 ![r].wake_at = IF st.phase = "sleep"
                                THEN now + st.slept[Len(st.slept)] ELSE @,
                 ![r].upstream_addr = IF st.phase = "done" /\ st.result = "ok"
                                      THEN LoadBalancer_select_ret(load_balancer) ELSE @]
    /\ UNCHANGED <<now, sideVars, cbVars, tbVars, rtVars, upstream, pipeHist>>

\* the drop of a handler's future that treats the drop as a failed request
Cancel_counts_failure(r) ==
    /\ \/ requests[r].pc = "match"
       \/ requests[r].pc = "upstream_peer" /\ requests[r].run.phase = "sleep"
    /\ requests' = [requests EXCEPT ![r].pc = "dropped"]
    /\ circuit_breaker' = CircuitBreaker_record_failure(circuit_breaker, now)
    /\ metrics' = inc(metrics, "retries_total")
    /\ UNCHANGED <<now, sideVars, cbLast, cbCount, tbVars, rtVars, load_balancer,
                   upstream, pipeHist>>

\* The client goes away and the handler's future is dropped while
\* upstream_peer is suspended: in wait_before_retry's sleep, or waiting for
\* the breaker's lock in record_success / record_failure.  These are the
\* awaits of upstream_peer; the lock is taken and released between two of
\* them, so a suspended handler holds none.  Nothing after the await runs.
Cancel(r) ==
    /\ \/ requests[r].pc = "match"
       \/ requests[r].pc = "upstream_peer" /\ requests[r].run.phase = "sleep"
    /\ requests' = [requests EXCEPT ![r].pc = "dropped"]
    /\ UNCHANGED <<now, sideVars, cbVars, tbVars, rtVars, metrics, load_balancer,
                   upstream, pipeHist>>

\* LB::upstream_peer, the match on the result of retry_with_policy
MatchOutcome(r) ==
    /\ requests[r].pc = "match"
    /\ CASE requests[r].run.result = "ok" ->
              /\ circuit_breaker' = CircuitBreaker_record_success(circuit_breaker)
              /\ requests' = [requests EXCEPT ![r].pc = "forward"]
              /\ UNCHANGED metrics
         [] requests[r].run.result = "err" ->
              /\ circuit_breaker' = CircuitBreaker_record_failure(circuit_breaker, now)
              /\ requests' = [requests EXCEPT ![r].pc = "done", ![r].status = 500]
              /\ metrics' = inc(metrics, "retries_total")
         [] OTHER ->
              /\ requests' = [requests EXCEPT ![r].pc = "done", ![r].status = 500]
              /\ UNCHANGED <<circuit_breaker, metrics>>
    /\ pipeHist' = [pipeHist EXCEPT !.admitted =
                       IF circuit_breaker'.state = "HalfOpen" THEN @ ELSE 0]
    /\ UNCHANGED <<now, sideVars, cbLast, cbCount, tbVars, rtVars, load_balancer,
                   upstream>>

NextCancel ==
    \/ \E r \in Requests : RequestFilterRateLimit(r)
    \/ \E r \in Requests : RequestFilterBreaker(r)
    \/ \E r \in Requests : SelectUpstream(r)
    \/ \E r \in Requests : MatchOutcome(r)
    \/ \E r \in Requests : Cancel(r)
    \/ \E r \in Requests : Forward(r)
    \/ \E p \in Peers : HealthCheck(p)
    \/ \E p \in Peers : UpstreamFlip(p)
    \/ PipeTick

\* the proxy of Init with one configuration: two failures open the breaker,
\* one success in HalfOpen closes it, the bucket holds two tokens
InitCancel ==
    /\ now = 0
    /\ rate_limiter = RateLimiter_new(1, 2, TRUE, 0)
    /\ tbLast = TbCall("none", 0, TRUE, rate_limiter, rate_limiter, 0)
    /\ grants = <<>>
    /\ burst = NoBurst
    /\ SideIdle
    /\ circuit_breaker = CircuitBreaker_new(2, 2, 1, TRUE)
    /\ cbLast = CbCall("none", TRUE, circuit_breaker, circuit_breaker, 0)
    /\ cbCount = [consec |-> 0, probes |-> 0]
    /\ retry_policy = RetryPolicy_new(2, 1, 2, TRUE)
    /\ run = Retry_start
    /\ outcomes = <<>>
    /\ requests = [r \in Requests |-> Request_new]
    /\ metrics = Metrics_new
    /\ load_balancer = LoadBalancer_new
    /\ upstream \in [Peers -> BOOLEAN]
    /\ pipeHist = [ever_up |-> \E p \in Peers : upstream[p], admitted |-> 0]

SpecCancel == InitCancel /\ [][NextCancel]_vars

\* C34: a handler dropped inside upstream_peer makes no further attempt and
\* the breaker does not see it: the step that drops it changes neither the
\* breaker nor retries_total, and once dropped the request never takes
\* another step; retries_total counts only the requests whose upstream_peer
\* ran to its Err arm.
C34_CancelInvisible ==
    [][ /\ \A r \in Requests :
             /\ (requests[r].pc # "dropped" /\ requests'[r].pc = "dropped") =>
                   /\ circuit_breaker' = circuit_breaker
                   /\ metrics'.retries_total = metrics.retries_total
             /\ requests[r].pc = "dropped" => requests'[r] = requests[r]
        /\ metrics'.retries_total
              = Cardinality({ r \in Requests : /\ requests'[r].pc = "done"
                                               /\ requests'[r].status = 500 }) ]_vars

\* C34 happens: one handler was dropped after its selection had found a peer
\* and one after its selection had failed; a third request's failure is the
\* only one the breaker and retries_total have counted
C34_Witness ==
    /\ requests[1].pc = "dropped" /\ requests[1].run.result = "ok"
    /\ requests[2].pc = "dropped" /\ requests[2].run.result = "err"
    /\ requests[3].pc = "done" /\ requests[3].status = 500
    /\ metrics.retries_total = 1
    /\ metrics.upstream_errors_total = 2
    /\ circuit_breaker.failure_count = 1
    /\ circuit_breaker.failure_threshold = 2

\* C35: the token is taken before the breaker is consulted.  The step in
\* which a request passes the rate-limit check takes exactly one token from
\* the refilled bucket and does not touch the breaker; a request answered
\* 429 takes none; no later step of a request (the breaker's 503, the
\* selection, the forwarding) changes the bucket.  So the tokens taken count
\* the requests not answered 429, whether or not they were forwarded.
C35_TokenBeforeBreaker ==
    [][ \A r \in Requests :
          requests'[r] # requests[r] =>
             LET refilled == TokenBucket_refill(rate_limiter, now)
             IN  IF requests[r].pc = "new"
                 THEN /\ circuit_breaker' = circuit_breaker
                      /\ IF requests'[r].status = 429
                         THEN /\ requests'[r].pc = "done"
                              /\ rate_limiter' = refilled
                         ELSE /\ requests'[r].pc = "breaker_check"
                              /\ rate_limiter' =
                                    [refilled EXCEPT !.tokens = refilled.tokens - 1]
                 ELSE rate_limiter' = rate_limiter ]_vars

\* C35 happens: before any refill two requests passed the rate-limit check
\* and emptied the bucket of two; the breaker, opened by the first one's
\* failure, answered the second with 503, and none was forwarded
C35_Witness ==
    /\ now = 0
    /\ rate_limiter.capacity = 2
    /\ rate_limiter.tokens = 0
    /\ requests[1].status = 500
    /\ requests[2].status = 503
    /\ \A r \in Requests : requests[r].forwards = 0
    /\ metrics.rate_limited_total = 0

\* C36: a failure recorded while the breaker is Open leaves it Open and
\* stamps last_failure_time with the instant of the call, and nothing else
\* moves the stamp of an Open breaker; the promotion to HalfOpen is made
\* only when recovery_timeout has passed since that stamp, that is since
\* the most recent recorded failure.
C36_RestampWhileOpen ==
    [][ (circuit_breaker.enabled /\ circuit_breaker.state = "Open") =>
          /\ (cbLast' # cbLast /\ cbLast'.op = "record_failure") =>
                /\ circuit_breaker'.state = "Open"
                /\ circuit_breaker'.failure_count = circuit_breaker.failure_count + 1
                /\ circuit_breaker'.last_failure_time = now
          /\ CASE circuit_breaker'.state = "Open" ->
                    \/ circuit_breaker' = circuit_breaker
                    \/ /\ cbLast'.op = "record_failure"
                       /\ circuit_breaker'.last_failure_time = now
               [] circuit_breaker'.state = "HalfOpen" ->
                    /\ cbLast'.op = "can_execute"
                    /\ now - circuit_breaker.last_failure_time
                          >= circuit_breaker.recovery_timeout
               [] OTHER -> cbLast'.op = "record_success" ]_vars

\* C36 happens: an Open breaker whose stamp was recovery_timeout old, so
\* that a can_execute would have promoted it, recorded a failure instead: it
\* is still Open and its stamp is the instant of that failure
C36_Witness ==
    /\ cbLast.op = "record_failure"
    /\ cbLast.pre.enabled
    /\ cbLast.pre.state = "Open"
    /\ cbLast.at - cbLast.pre.last_failure_time >= cbLast.pre.recovery_timeout
    /\ cbLast.post.state = "Open"
    /\ cbLast.post.last_failure_time = cbLast.at
    /\ circuit_breaker = cbLast.post
    /\ ~CircuitBreaker_can_execute_ret(circuit_breaker, now)

\* C37: for every policy a configuration file can give, max_attempts = 0
\* included, a finished call of retry_with_policy has invoked the operation
\* at least once and returned the operation's Ok or Err: the fall-through
\* after the loop (the unwrap of last_error) is never reached.
C37_InvokedAtLeastOnce ==
    run.phase = "done" =>
        /\ run.calls >= 1
        /\ run.result \in {"ok", "err"}

----------------------------------------------------------------------------
(* wait_before_retry on its own: attempt = 1, 2, 3, ... for one policy *)

\* the attempt numbers go past the width of the word
MaxBackoffCalls == WordBits + 2

InitBackoff ==
    /\ now = 0
    /\ retry_policy \in
          { RetryPolicy_new(n, b, m, en) :
              n \in 0..MaxAttempts, b \in 1..MaxBackoffBase,
              m \in 2..MaxBackoffMax, en \in BOOLEAN }
    /\ run = Retry_start
    /\ outcomes = <<>>
    /\ circuit_breaker = CircuitBreaker_new(1, 1, 1, FALSE)
    /\ cbLast = CbCall("none", TRUE, circuit_breaker, circuit_breaker, 0)
    /\ cbCount = [consec |-> 0, probes |-> 0]
    /\ rate_limiter = RateLimiter_new(0, 1, FALSE, 0)
    /\ tbLast = TbCall("none", 0, TRUE, rate_limiter, rate_limiter, 0)
    /\ grants = <<>>
    /\ burst = NoBurst
    /\ SideIdle
    /\ requests = [r \in Requests |-> Request_new]
    /\ metrics = Metrics_new
    /\ load_balancer = LoadBalancer_new
    /\ upstream = [p \in Peers |-> TRUE]
    /\ pipeHist = [ever_up |-> TRUE, admitted |-> 0]

\* wait_before_retry(attempt) for the next attempt number returns after its
\* sleep; run.slept keeps the durations for attempt = 1, 2, ...
BackoffSleeps ==
    /\ run.phase = "head"
    /\ Len(run.slept) < MaxBackoffCalls
    /\ run' = [run EXCEPT !.slept =
                  Append(@, RetryPolicy_wait_before_retry(retry_policy, Len(run.slept) + 1))]
    /\ UNCHANGED <<now, sideVars, retry_policy, outcomes, cbVars, tbVars, plVars>>

\* wait_before_retry(attempt) for the next attempt number overflows in a
\* build with overflow checks: the task panics
BackoffPanics ==
    /\ run.phase = "head"
    /\ Len(run.slept) < MaxBackoffCalls
    /\ wait_before_retry_overflows(retry_policy, Len(run.slept) + 1)
    /\ run' = [run EXCEPT !.phase = "done", !.result = "panic"]
    /\ UNCHANGED <<now, sideVars, retry_policy, outcomes, cbVars, tbVars, plVars>>

NextBackoff ==
    \/ BackoffSleeps
    \/ BackoffPanics

SpecBackoff == InitBackoff /\ [][NextBackoff]_vars

\* C38: for every attempt number the backoff of wait_before_retry is at
\* most backoff_max and at least the backoff of the attempt before it, and
\* the computation of backoff_base * 2^(attempt-1) neither overflows (no
\* panic) nor wraps to a smaller delay.
C38_BackoffMonotoneCapped ==
    /\ run.result # "panic"
    /\ \A i \in 1..Len(run.slept) : run.slept[i] <= retry_policy.backoff_max
    /\ \A i \in 1..(Len(run.slept) - 1) : run.slept[i] <= run.slept[i + 1]

====
